---- MODULE Spec2Model ----
(***************************************************************************)
(* SWF shape decoding in open-flash/swf-renderer.                          *)
(*                                                                         *)
(* Two decoders live in the repository and both are modelled:              *)
(*   - defineShape / convertRecordsToShapeData / SegmentedPath             *)
(*     (src/unnamed/part_005), which writes a ShapeData command stream;    *)
(*   - toSimpleShape / SwfShapeConverter                                   *)
(*     (src/swf-renderer.ts/src/lib/simple-shape/shape.ts), which returns  *)
(*     a Shape {paths}.                                                    *)
(* A behaviour is: the caller picks a tag and a decoder, and calls the     *)
(* decoder on that same tag object up to MaxCalls times.  One action is    *)
(* one iteration of the record loop, one serialize call, or the return.    *)
(***************************************************************************)
EXTENDS Integers, Sequences, FiniteSets, TLC

\* ------------------------------------------------------------------ bounds

\* How many times the caller decodes the same tag object.
MaxCalls == 2

\* The ratios a morph shape is drawn at are 0, 1 / RatioDen, ..., 1.
RatioDen == 2

\* ------------------------------------------------------------ JS helpers

\* x | 0 : conversion to a signed 32 bit integer.  The model's integers are
\* the signed 32 bit integers, on which the conversion changes nothing.
ToInt32(n) == n

\* Half of n rounded toward zero.
TruncatedHalf(n) == IF n < 0 THEN -((-n) \div 2) ELSE n \div 2

\* n >> 1 on a 32 bit integer (arithmetic shift: floor of n / 2).
Shr1(n) == ToInt32(n) \div 2

\* Array.prototype.indexOf (0 based, -1 when absent).
RECURSIVE IndexOfFrom(_, _, _)
IndexOfFrom(arr, v, k) ==
  IF k > Len(arr) THEN -1
  ELSE IF arr[k] = v THEN k - 1
  ELSE IndexOfFrom(arr, v, k + 1)

IndexOf(arr, v) == IndexOfFrom(arr, v, 1)

\* Array.prototype.splice(i, 1) with a 1 based index.
RemoveAt(arr, k) == [n \in 1..(Len(arr) - 1) |-> IF n < k THEN arr[n] ELSE arr[n + 1]]

\* ------------------------------------------------------------- the input

\* A style object of the tag.  Optional members are sequences of length
\* at most one (<<>> is undefined / null).
Style(type, color, matrix, bitmapId, hasFill, fillStyle) ==
  [type |-> type, color |-> color, matrix |-> matrix, bitmapId |-> bitmapId,
   hasFill |-> hasFill, fillStyle |-> fillStyle,
   transform |-> <<>>, bitmapIndex |-> -1, miterLimitFactor |-> <<>>, miterLimit |-> <<>>,
   width |-> 0, colorMorph |-> <<>>, widthMorph |-> <<>>, matrixMorph |-> <<>>, morph |-> <<>>]

Red == [r |-> 255, g |-> 0, b |-> 0, a |-> 255]

SolidFill == Style("Solid", <<Red>>, <<>>, 0, FALSE, <<>>)

GradientFill(matrix) == Style("LinearGradient", <<>>, matrix, 0, FALSE, <<>>)

BitmapFill(matrix, id) == Style("ClippedBitmap", <<>>, matrix, id, FALSE, <<>>)

ColorLine == [Style("undefined", <<Red>>, <<>>, 0, FALSE, <<>>) EXCEPT !.width = 20]

FillLine(fill) == [Style("undefined", <<>>, <<>>, 0, TRUE, <<fill>>) EXCEPT !.width = 20]

\* A matrix of the tag: a stands for a, b, c and d, tx for tx and ty.
Matrix(a, tx) == [a |-> a, tx |-> tx]

\* A shape record in the layout convertRecordsToShapeData reads.
Record(type, flags) ==
  [type |-> type, flags |-> flags,
   fillStyle0 |-> 0, fillStyle1 |-> 0, lineStyle |-> 0, moveX |-> 0, moveY |-> 0,
   deltaX |-> 0, deltaY |-> 0,
   controlDeltaX |-> 0, controlDeltaY |-> 0, anchorDeltaX |-> 0, anchorDeltaY |-> 0,
   fillStyles |-> <<>>, lineStyles |-> <<>>]

StraightEdge(dx, dy) == [Record(1, {"IsStraight"}) EXCEPT !.deltaX = dx, !.deltaY = dy]

CurvedEdge(cdx, cdy, adx, ady) ==
  [Record(1, {}) EXCEPT !.controlDeltaX = cdx, !.controlDeltaY = cdy,
                        !.anchorDeltaX = adx, !.anchorDeltaY = ady]

\* A style change; a slot value of -1 means the record does not specify the slot.
StyleChange(f0, f1, ln, move) ==
  [Record(0, (IF f0 >= 0 THEN {"HasFillStyle0"} ELSE {})
             \cup (IF f1 >= 0 THEN {"HasFillStyle1"} ELSE {})
             \cup (IF ln >= 0 THEN {"HasLineStyle"} ELSE {})
             \cup (IF move # <<>> THEN {"Move"} ELSE {}))
   EXCEPT !.fillStyle0 = IF f0 >= 0 THEN f0 ELSE 0,
          !.fillStyle1 = IF f1 >= 0 THEN f1 ELSE 0,
          !.lineStyle = IF ln >= 0 THEN ln ELSE 0,
          !.moveX = IF move # <<>> THEN move[1] ELSE 0,
          !.moveY = IF move # <<>> THEN move[2] ELSE 0]

\* A style change that also carries new style tables.
NewStyles(rec, fills, lines) ==
  [rec EXCEPT !.flags = @ \cup {"HasNewStyles"}, !.fillStyles = fills, !.lineStyles = lines]

IsStyleChange(rec) == rec.type = 0

IsEdge(rec) == rec.type = 1

\* ------------------------------------------------ simple-shape/shape.ts

createStraightSegment(startX, startY, endX, endY) ==
  [type |-> "Straight", startX |-> startX, startY |-> startY,
   controlX |-> 0, controlY |-> 0, endX |-> endX, endY |-> endY]

createCurvedSegment(startX, startY, controlX, controlY, endX, endY) ==
  [type |-> "Curved", startX |-> startX, startY |-> startY,
   controlX |-> controlX, controlY |-> controlY, endX |-> endX, endY |-> endY]

\* A colour component divided by 255, kept as the fraction <<numerator, 255>>.
normalizeStraightSRgba(color) ==
  [r |-> <<color.r, 255>>, g |-> <<color.g, 255>>, b |-> <<color.b, 255>>, a |-> <<color.a, 255>>]

\* convertFillStyle: [ok, style]; ok = FALSE is the thrown "Unknown fill type".
convertFillStyle(old) ==
  IF old.type = "Solid"
  THEN [ok |-> TRUE, style |-> [type |-> "Solid", color |-> normalizeStraightSRgba(old.color[1]), width |-> 0]]
  ELSE [ok |-> FALSE, style |-> [type |-> "Solid", color |-> normalizeStraightSRgba(Red), width |-> 0]]

convertLineStyle(old) ==
  [type |-> "Solid",
   color |-> [r |-> <<0, 1>>, g |-> <<0, 1>>, b |-> <<0, 1>>, a |-> <<1, 1>>],
   width |-> 50]

\* createStyleLayer: [ok, layer]; ok = FALSE when convertFillStyle throws.
createStyleLayer(swfFillStyles, swfLineStyles) ==
  [ok |-> \A n \in 1..Len(swfFillStyles) : convertFillStyle(swfFillStyles[n]).ok,
   layer |-> [fills |-> [n \in 1..Len(swfFillStyles) |->
                           [style |-> convertFillStyle(swfFillStyles[n]).style, segments |-> <<>>]],
              lines |-> [n \in 1..Len(swfLineStyles) |->
                           [style |-> convertLineStyle(swfLineStyles[n]), segments |-> <<>>]]]]

\* The for loop of extractContinuous; i is the 0 based loop index.
RECURSIVE extractLoop(_, _, _, _, _, _, _, _)
extractLoop(openSet, i, len, result, startX, startY, endX, endY) ==
  IF ~(i < len) THEN [result |-> result, openSet |-> openSet]
  ELSE LET current == openSet[i + 1] IN
    IF current.startX = endX /\ current.startY = endY
    THEN extractLoop(RemoveAt(openSet, i + 1), i, len - 1, Append(result, current),
                     startX, startY, current.endX, current.endY)
    ELSE IF current.endX = startX /\ current.endY = startY
    THEN extractLoop(RemoveAt(openSet, i + 1), i, len - 1, <<current>> \o result,
                     current.startX, current.startY, endX, endY)
    ELSE extractLoop(openSet, i + 1, len, result, startX, startY, endX, endY)

\* extractContinuous on a nonempty openSet: the sequence and what is left.
extractContinuous(openSet) ==
  LET first == Head(openSet) IN
  extractLoop(Tail(openSet), 0, Len(openSet) - 1, <<first>>,
              first.startX, first.startY, first.endX, first.endY)

\* A path command; MoveTo and LineTo leave the control point 0.
Command(type, controlX, controlY, x, y) ==
  [type |-> type, controlX |-> controlX, controlY |-> controlY, x |-> x, y |-> y]

segmentCommand(segment) ==
  IF segment.type = "Straight"
  THEN Command("LineTo", 0, 0, segment.endX, segment.endY)
  ELSE Command("CurveTo", segment.controlX, segment.controlY, segment.endX, segment.endY)

RECURSIVE segmentsToCommandsFrom(_, _)
segmentsToCommandsFrom(openSet, result) ==
  IF Len(openSet) = 0 THEN result
  ELSE LET e == extractContinuous(openSet)
           sequence == e.result
       IN segmentsToCommandsFrom(e.openSet,
            result \o <<Command("MoveTo", 0, 0, sequence[1].startX, sequence[1].startY)>>
                   \o [n \in 1..Len(sequence) |-> segmentCommand(sequence[n])])

segmentsToCommands(segments) == segmentsToCommandsFrom(segments, <<>>)

\* The paths with at least one command, in order (commands.length > 0).
RECURSIVE nonEmptyPaths(_)
nonEmptyPaths(seq) ==
  IF seq = <<>> THEN <<>>
  ELSE (IF Len(Head(seq).commands) > 0 THEN <<Head(seq)>> ELSE <<>>) \o nonEmptyPaths(Tail(seq))

\* layerToPaths; layer and index say which style set a path came from.
layerToPaths(layer, l) ==
  LET fillPath(n) == [commands |-> segmentsToCommands(layer.fills[n].segments),
                      fill |-> <<layer.fills[n].style>>, line |-> <<>>,
                      layer |-> l, index |-> n]
      linePath(n) == [commands |-> segmentsToCommands(layer.lines[n].segments),
                      fill |-> <<>>, line |-> <<layer.lines[n].style>>,
                      layer |-> l, index |-> n]
  IN nonEmptyPaths([n \in 1..Len(layer.fills) |-> fillPath(n)])
     \o nonEmptyPaths([n \in 1..Len(layer.lines) |-> linePath(n)])

\* getShape: the paths of every layer, in layer order.
RECURSIVE getShapeFrom(_, _)
getShapeFrom(ls, l) ==
  IF l > Len(ls) THEN <<>> ELSE layerToPaths(ls[l], l) \o getShapeFrom(ls, l + 1)

getShape(ls) == [paths |-> getShapeFrom(ls, 1)]

\* setLeftFillById / setRightFillById / setLineFillById on the table `sets` of
\* the current layer `l`: [ok, ref]; ref is <<>> (undefined) or <<layer, index>>.
setFillById(sets, l, fillId) ==
  IF fillId = 0 THEN [ok |-> TRUE, ref |-> <<>>]
  ELSE IF fillId - 1 >= 0 /\ fillId - 1 < Len(sets) THEN [ok |-> TRUE, ref |-> <<l, fillId>>]
  ELSE [ok |-> FALSE, ref |-> <<>>]

\* --------------------------------------------- part_005: style normalizer

\* Which style object a SegmentedPath was built from: table rec (0: the tag's
\* own tables, k: the tables of record k), kind "fill" | "line" | "default",
\* and the 1 based index n in that table.
StyleRef(rec, kind, n) == [rec |-> rec, kind |-> kind, n |-> n]

\* Transforms are kept multiplied by 20, so that 0.05 and 819.2 stay integers.
\* nan says that a, b, c and d are NaN (a matrix entry times undefined).
IDENTITY_MATRIX == [a |-> 20, tx |-> 0, nan |-> FALSE]

\* 819.2 * 20
GradientScale20 == 16384

\* 0.05 * 20
BitmapScale20 == 1

IsGradient(type) == type \in {"LinearGradient", "RadialGradient", "FocalRadialGradient"}

IsBitmap(type) ==
  type \in {"RepeatingBitmap", "ClippedBitmap", "NonsmoothedRepeatingBitmap", "NonsmoothedClippedBitmap"}

\* An index lookup that finds nothing.
dependencyNotFound(deps, bitmapId) == -1

\* dependencies.indexOf(style.bitmapId)
dependencyIndex(deps, bitmapId) == IndexOf(deps, bitmapId)

\* processStyle(style, false, false, dependencies): [style, deps, ok].
\* The style object itself is changed (shapeStyle = style); ok = FALSE is the
\* TypeError of reading style.type when style is null, which the caller tests.
\* A type that is none of the cases of the switch only gets a Debug.warning:
\* scale stays undefined.
processFillStyle(style, deps) ==
  IF style.type = "undefined" \/ style.type = "Solid"
  THEN [style |-> style, deps |-> deps, ok |-> TRUE]
  ELSE
    LET index == dependencyIndex(deps, style.bitmapId)
        newIndex == IF index = -1 THEN Len(deps) ELSE index
        deps1 == IF IsBitmap(style.type) /\ index = -1 THEN Append(deps, style.bitmapId) ELSE deps
        s1 == IF IsBitmap(style.type) THEN [style EXCEPT !.bitmapIndex = newIndex] ELSE style
        known == IsGradient(style.type) \/ IsBitmap(style.type)
        scale == IF IsGradient(style.type) THEN GradientScale20 ELSE BitmapScale20
    IN IF style.matrix = <<>>
       THEN [style |-> [s1 EXCEPT !.transform = <<IDENTITY_MATRIX>>], deps |-> deps1, ok |-> TRUE]
       ELSE [style |-> [s1 EXCEPT !.transform = <<[a |-> IF known THEN style.matrix[1].a * scale
                                                         ELSE 0,
                                                   tx |-> style.matrix[1].tx,
                                                   nan |-> ~known]>>,
                                  !.matrix = <<>>],
             deps |-> deps1, ok |-> TRUE]

\* The object Object.create(style) of processMorphStyle: its own properties.
\* A property is <<>> while the object does not have it (it is then read from
\* style), and <<v>> once it is assigned v, v itself being optional.
NoOwnProperties == [color |-> <<>>, width |-> <<>>, transform |-> <<>>]

\* morphStyle.transform of a fill style that has a type other than Solid.
\* ok = FALSE: the assertUnreachable of the default case in a build that is not
\* a release, or the TypeError of reading matrixMorph.a when there is none.
morphTransform(style, rel) ==
  LET known == IsGradient(style.type) \/ IsBitmap(style.type)
      scale == IF IsGradient(style.type) THEN GradientScale20 ELSE BitmapScale20
  IN IF ~known /\ ~rel THEN [transform |-> <<>>, ok |-> FALSE]
     ELSE IF style.matrix = <<>> THEN [transform |-> <<IDENTITY_MATRIX>>, ok |-> TRUE]
     ELSE IF style.matrixMorph = <<>> THEN [transform |-> <<>>, ok |-> FALSE]
     ELSE [transform |-> <<[a |-> IF known THEN style.matrixMorph[1].a * scale ELSE 0,
                            tx |-> style.matrixMorph[1].tx, nan |-> ~known]>>,
           ok |-> TRUE]

\* processMorphStyle(style, false, dependencies): [morph, ok].
processMorphFillStyle(style, rel) ==
  IF style.type = "undefined" THEN [morph |-> NoOwnProperties, ok |-> TRUE]
  ELSE IF style.type = "Solid"
  THEN [morph |-> [NoOwnProperties EXCEPT !.color = <<style.colorMorph>>], ok |-> TRUE]
  ELSE LET t == morphTransform(style, rel)
       IN [morph |-> [NoOwnProperties EXCEPT !.transform = <<t.transform>>], ok |-> t.ok]

\* processMorphStyle(style, isLineStyle, dependencies): [morph, ok].  For a
\* line with a nested fill, style.fillStyle = <<>> is null, and reading its
\* type throws.
processMorphStyle(style, isLineStyle, rel) ==
  IF ~isLineStyle THEN processMorphFillStyle(style, rel)
  ELSE IF style.color = <<>> /\ style.hasFill
  THEN IF style.fillStyle = <<>>
       THEN [morph |-> NoOwnProperties, ok |-> FALSE]
       ELSE LET f == processMorphFillStyle(style.fillStyle[1], rel)
            IN [morph |-> [NoOwnProperties EXCEPT
                             !.width = <<style.widthMorph>>,
                             !.transform = <<IF f.morph.transform # <<>> THEN f.morph.transform[1]
                                             ELSE style.fillStyle[1].transform>>],
                ok |-> f.ok]
  ELSE [morph |-> [NoOwnProperties EXCEPT !.width = <<style.widthMorph>>,
                                         !.color = <<style.colorMorph>>],
        ok |-> TRUE]

\* (style.miterLimitFactor || 1.5) * 2
miterLimitOf(style) ==
  IF style.miterLimitFactor = <<>> \/ style.miterLimitFactor = <<0>> THEN 3
  ELSE style.miterLimitFactor[1] * 2

\* processStyle(style, isLineStyle, false, dependencies): [style, deps, ok].
processPlainStyle(style, isLineStyle, deps) ==
  IF isLineStyle
  THEN LET s0 == [style EXCEPT !.miterLimit = <<miterLimitOf(style)>>] IN
       IF style.color = <<>> /\ style.hasFill
       THEN IF style.fillStyle = <<>>
            THEN [style |-> s0, deps |-> deps, ok |-> FALSE]
            ELSE LET r == processFillStyle(style.fillStyle[1], deps) IN
                 [style |-> [s0 EXCEPT !.type = r.style.type,
                                       !.transform = r.style.transform,
                                       !.bitmapId = r.style.bitmapId,
                                       !.bitmapIndex = r.style.bitmapIndex,
                                       !.fillStyle = <<>>],
                  deps |-> r.deps, ok |-> TRUE]
       ELSE [style |-> [s0 EXCEPT !.type = "Solid"], deps |-> deps, ok |-> TRUE]
  ELSE processFillStyle(style, deps)

\* processStyle(style, isLineStyle, isMorph, dependencies): [style, deps, ok].
\* "if (isMorph) shapeStyle.morph = processMorphStyle(...)" comes first.
processStyle(style, isLineStyle, isMorph, rel, deps) ==
  IF ~isMorph THEN processPlainStyle(style, isLineStyle, deps)
  ELSE LET pm == processMorphStyle(style, isLineStyle, rel)
       IN IF ~pm.ok THEN [style |-> style, deps |-> deps, ok |-> FALSE]
          ELSE processPlainStyle([style EXCEPT !.morph = <<pm.morph>>], isLineStyle, deps)

\* The literal style of the default path after processStyle(style, true, ...).
DefaultStyle(isMorph) ==
  [type |-> "Solid", color |-> <<[r |-> 0, g |-> 0, b |-> 0, a |-> 0]>>, matrix |-> <<>>,
   bitmapId |-> 0, hasFill |-> FALSE, fillStyle |-> <<>>, transform |-> <<>>,
   bitmapIndex |-> -1, miterLimitFactor |-> <<>>, miterLimit |-> <<3>>, width |-> 20,
   colorMorph |-> <<>>, widthMorph |-> <<>>, matrixMorph |-> <<>>,
   morph |-> IF isMorph
             THEN <<[NoOwnProperties EXCEPT !.width = <<(<<>>)>>, !.color = <<(<<>>)>>]>>
             ELSE <<>>]

\* The style table a reference points into.
StyleTable(t, rec, kind) ==
  IF rec = 0
  THEN (IF kind = "fill" THEN t.fillStyles ELSE t.lineStyles)
  ELSE (IF kind = "fill" THEN t.records[rec].fillStyles ELSE t.records[rec].lineStyles)

StyleAt(t, ref) ==
  IF ref.kind = "default" THEN DefaultStyle(t.recordsMorph # <<>>)
  ELSE StyleTable(t, ref.rec, ref.kind)[ref.n]

SetStyleAt(t, ref, v) ==
  IF ref.rec = 0
  THEN (IF ref.kind = "fill" THEN [t EXCEPT !.fillStyles[ref.n] = v]
                             ELSE [t EXCEPT !.lineStyles[ref.n] = v])
  ELSE (IF ref.kind = "fill" THEN [t EXCEPT !.records[ref.rec].fillStyles[ref.n] = v]
                             ELSE [t EXCEPT !.records[ref.rec].lineStyles[ref.n] = v])

\* ------------------------------------------------- part_005: PathSegment

\* The memory the decoder works on, threaded through the operators below:
\* the shared buffers (cmds, data), the segment pool and its counter, the
\* SegmentedPath objects (paths), the tag, the dependencies array, and ok,
\* the build flag (release), and ok, which turns FALSE when a TypeError is
\* thrown or an assertion fails.

\* sharedCommands.position and sharedData.position (bytes).
CommandsPosition(m) == Len(m.cmds)

DataPosition(m) == 4 * Len(m.data)

\* sharedMorphData.position (bytes).
MorphDataPosition(m) == 4 * Len(m.morph)

\* PathSegment.reset
reset(m) ==
  [commandsStart |-> CommandsPosition(m), commandsEnd |-> CommandsPosition(m),
   dataStart |-> DataPosition(m), dataEnd |-> DataPosition(m),
   morphDataStart |-> MorphDataPosition(m), morphDataEnd |-> MorphDataPosition(m),
   isMorph |-> FALSE, isReversed |-> FALSE, prev |-> 0, next |-> 0,
   startPoint |-> 0, endPoint |-> 0, flag |-> FALSE]

\* A reset that leaves the direction of the segment as it was.
resetButDirection(m, seg) == [reset(m) EXCEPT !.isReversed = seg.isReversed]

\* "segment.reset()" on a segment of the pool.
resetSegment(m, seg) == reset(m)

\* PathSegment.FromDefaults: the new segment is pool entry m.counter + 1.
FromDefaults(m, isMorph) ==
  [m EXCEPT !.pool = IF m.counter < Len(m.pool)
                     THEN [m.pool EXCEPT ![m.counter + 1] =
                             [resetSegment(m, m.pool[m.counter + 1]) EXCEPT !.isMorph = isMorph]]
                     ELSE Append(m.pool, [reset(m) EXCEPT !.isMorph = isMorph]),
            !.counter = m.counter + 1]

moveTo(m, s, x, y) ==
  [m EXCEPT !.cmds = Append(m.cmds, "MoveTo"), !.data = m.data \o <<x, y>>,
            !.pool[s].commandsEnd = Len(m.cmds) + 1,
            !.pool[s].dataEnd = 4 * (Len(m.data) + 2)]

lineTo(m, s, x, y) ==
  [m EXCEPT !.cmds = Append(m.cmds, "LineTo"), !.data = m.data \o <<x, y>>,
            !.pool[s].commandsEnd = Len(m.cmds) + 1,
            !.pool[s].dataEnd = 4 * (Len(m.data) + 2)]

curveTo(m, s, cpx, cpy, x, y) ==
  [m EXCEPT !.cmds = Append(m.cmds, "CurveTo"), !.data = m.data \o <<cpx, cpy, x, y>>,
            !.pool[s].commandsEnd = Len(m.cmds) + 1,
            !.pool[s].dataEnd = 4 * (Len(m.data) + 4)]

\* morphMoveTo, morphLineTo and morphCurveTo: the end-frame coordinates go
\* to sharedMorphData.
morphMoveTo(m, s, x, y, mx, my) ==
  [moveTo(m, s, x, y) EXCEPT !.morph = m.morph \o <<mx, my>>,
                             !.pool[s].morphDataEnd = 4 * (Len(m.morph) + 2)]

morphLineTo(m, s, x, y, mx, my) ==
  [lineTo(m, s, x, y) EXCEPT !.morph = m.morph \o <<mx, my>>,
                             !.pool[s].morphDataEnd = 4 * (Len(m.morph) + 2)]

morphCurveTo(m, s, cpx, cpy, x, y, mcpx, mcpy, mx, my) ==
  [curveTo(m, s, cpx, cpy, x, y) EXCEPT !.morph = m.morph \o <<mcpx, mcpy, mx, my>>,
                                        !.pool[s].morphDataEnd = 4 * (Len(m.morph) + 4)]

\* PathSegment.clone: the copy is pool entry m.counter + 1.
clone(m, s) ==
  LET m1 == FromDefaults(m, m.pool[s].isMorph)
      c == m.counter + 1
  IN [m1 EXCEPT !.pool[c].commandsStart = m.pool[s].commandsStart,
                !.pool[c].commandsEnd = m.pool[s].commandsEnd,
                !.pool[c].dataStart = m.pool[s].dataStart,
                !.pool[c].dataEnd = m.pool[s].dataEnd,
                !.pool[c].morphDataStart = m.pool[s].morphDataStart,
                !.pool[c].morphDataEnd = m.pool[s].morphDataEnd,
                !.pool[c].isReversed = m.pool[s].isReversed]

\* PathSegment.toReversed; "release || assert(!this.isReversed)".
toReversed(m, s) ==
  IF ~m.release /\ m.pool[s].isReversed THEN [m EXCEPT !.ok = FALSE]
  ELSE [clone(m, s) EXCEPT !.pool[m.counter + 1].isReversed = TRUE]

\* new SegmentedPath(...): the new object is m.paths[Len(m.paths) + 1].
newSegmentedPath(m, ref) == [m EXCEPT !.paths = Append(m.paths, [style |-> ref, segments |-> <<>>])]

\* SegmentedPath.addSegment
addSegment(m, p, s) == [m EXCEPT !.paths[p].segments = Append(m.paths[p].segments, s)]

\* paths[id - 1] of a JS array: 0 stands for undefined.
PathAt(list, id) == IF id - 1 >= 0 /\ id - 1 < Len(list) THEN list[id] ELSE 0

applySegmentToStyles(m, segment, styles, linePaths, fillPaths) ==
  IF segment = 0 THEN m
  ELSE
    LET fill0Only == styles.fill0 # 0 /\ ~(styles.fill1 # 0 \/ styles.line # 0)
        m1 == IF styles.fill0 = 0 THEN m
              ELSE IF fill0Only THEN [m EXCEPT !.pool[segment].isReversed = TRUE]
              ELSE LET path == PathAt(fillPaths, styles.fill0)
                       r == toReversed(m, segment)
                   IN IF path = 0 THEN [m EXCEPT !.ok = FALSE]
                      ELSE IF ~r.ok THEN r
                      ELSE addSegment(r, path, m.counter + 1)
    IN IF fill0Only \/ ~m1.ok THEN m1
       ELSE IF styles.line # 0 /\ styles.fill1 # 0
       THEN LET path == PathAt(linePaths, styles.line)
            IN IF path = 0 THEN [m1 EXCEPT !.ok = FALSE]
               ELSE addSegment(clone(m1, segment), path, m1.counter + 1)
       ELSE m1

\* createPathsList over table (rec, kind): every style is processed in place and
\* gets a SegmentedPath; list holds the new paths.  r is [m, list].
RECURSIVE createPathsListFrom(_, _, _, _)
createPathsListFrom(r, rec, kind, n) ==
  IF ~r.m.ok \/ n > Len(StyleTable(r.m.tag, rec, kind)) THEN r
  ELSE LET ref == StyleRef(rec, kind, n)
           ps == processStyle(StyleAt(r.m.tag, ref), kind = "line", r.m.tag.recordsMorph # <<>>,
                              r.m.release, r.m.deps)
           m1 == [r.m EXCEPT !.tag = SetStyleAt(r.m.tag, ref, ps.style),
                             !.deps = ps.deps, !.ok = ps.ok]
       IN IF ~ps.ok THEN [m |-> m1, list |-> r.list]
          ELSE createPathsListFrom(
                 [m |-> newSegmentedPath(m1, ref), list |-> Append(r.list, Len(m1.paths) + 1)],
                 rec, kind, n + 1)

createPathsList(m, rec, kind) == createPathsListFrom([m |-> m, list |-> <<>>], rec, kind, 1)

\* ----------------------------------------- part_005: writing a segment out

\* Element k (0 based) of a JS array.
At(arr, k) == arr[k + 1]

\* ShapeData, the output: the command bytes, the coordinates, the arguments
\* of the style commands, and for a morph shape the end-frame coordinates
\* and style arguments.
EmptyShapeData ==
  [commands |-> <<>>, coordinates |-> <<>>, styles |-> <<>>,
   morphCoordinates |-> <<>>, morphStyles |-> <<>>]

writeCommandAndCoordinates(shape, command, x, y) ==
  [shape EXCEPT !.commands = Append(shape.commands, command),
                !.coordinates = shape.coordinates \o <<x, y>>]

writeCoordinates(shape, x, y) == [shape EXCEPT !.coordinates = shape.coordinates \o <<x, y>>]

writeMorphCoordinates(shape, x, y) ==
  [shape EXCEPT !.morphCoordinates = shape.morphCoordinates \o <<x, y>>]

\* "if (morphData) shape.writeMorphCoordinates(morphData[position + morphOffset],
\* morphData[position + 1 + morphOffset])"; md is [on, data, offset], on = FALSE
\* being morphData = null.
writeMorphAt(shape, md, position) ==
  IF md.on
  THEN writeMorphCoordinates(shape, At(md.data, position + md.offset),
                             At(md.data, position + 1 + md.offset))
  ELSE shape

\* PathSegment._writeCommand: [shape, position].
writeCommand(command, position, data, md, shape) ==
  LET s1 == writeMorphAt(
              writeCommandAndCoordinates(shape, command, At(data, position), At(data, position + 1)),
              md, position)
  IN IF command = "CurveTo"
     THEN [shape |-> writeMorphAt(
                       writeCoordinates(s1, At(data, position + 2), At(data, position + 3)),
                       md, position + 2),
           position |-> position + 4]
     ELSE [shape |-> s1, position |-> position + 2]

\* The for loop of PathSegment.serialize.
RECURSIVE serializeForwardLoop(_, _, _, _, _, _, _, _)
serializeForwardLoop(shape, commands, data, md, cPos, i, commandsCount, dataPosition) ==
  IF ~(i < commandsCount) THEN shape
  ELSE LET w == writeCommand(At(commands, cPos + i), dataPosition, data, md, shape)
       IN serializeForwardLoop(w.shape, commands, data, md, cPos, i + 1, commandsCount, w.position)

\* The loop with the two points of a curve taken in the order of the data.
RECURSIVE serializeReversedInDataOrder(_, _, _, _, _, _, _)
serializeReversedInDataOrder(shape, commands, data, md, cPos, i, dataPosition) ==
  IF ~(i > 1) THEN shape
  ELSE LET i1 == i - 1
           command == At(commands, cPos + i1)
           p1 == IF command = "CurveTo" THEN dataPosition - 4 ELSE dataPosition - 2
           s1 == writeMorphAt(
                   writeCommandAndCoordinates(shape, command, At(data, p1), At(data, p1 + 1)),
                   md, p1)
       IN IF command = "CurveTo"
          THEN serializeReversedInDataOrder(
                 writeMorphAt(writeCoordinates(s1, At(data, p1 + 2), At(data, p1 + 3)), md, p1 + 2),
                 commands, data, md, cPos, i1, p1)
          ELSE serializeReversedInDataOrder(s1, commands, data, md, cPos, i1, p1)

\* The for loop of PathSegment._serializeReversed: i counts down to 1.
RECURSIVE serializeReversedLoop(_, _, _, _, _, _, _)
serializeReversedLoop(shape, commands, data, md, cPos, i, dataPosition) ==
  IF ~(i > 1) THEN shape
  ELSE LET i1 == i - 1
           p1 == dataPosition - 2
           command == At(commands, cPos + i1)
           s1 == writeMorphAt(
                   writeCommandAndCoordinates(shape, command, At(data, p1), At(data, p1 + 1)),
                   md, p1)
       IN IF command = "CurveTo"
          THEN serializeReversedLoop(
                 writeMorphAt(writeCoordinates(s1, At(data, p1 - 2), At(data, p1 - 1)), md, p1 - 2),
                 commands, data, md, cPos, i1, p1 - 2)
          ELSE serializeReversedLoop(s1, commands, data, md, cPos, i1, p1)

\* PathSegment._serializeReversed: [shape, last].
serializeReversed(seg, commands, data, morphData, shape, last) ==
  LET commandsCount == seg.commandsEnd - seg.commandsStart
      dataPosition == (seg.dataEnd \div 4) - 2
      md == [on |-> seg.isMorph, data |-> morphData,
             offset |-> (seg.morphDataEnd - seg.dataEnd) \div 4]
      s1 == IF At(data, dataPosition) # last.x \/ At(data, dataPosition + 1) # last.y
            THEN writeCommand("MoveTo", dataPosition, data, md, shape).shape
            ELSE shape
      newLast == [x |-> At(data, seg.dataStart \div 4), y |-> At(data, (seg.dataStart \div 4) + 1)]
  IN IF commandsCount = 1
     THEN [shape |-> s1, last |-> newLast]
     ELSE [shape |-> serializeReversedLoop(s1, commands, data, md, seg.commandsStart,
                                           commandsCount, dataPosition),
           last |-> newLast]

\* PathSegment.serialize: [shape, last].
serializeSegment(seg, commands, data, morphData, shape, last) ==
  IF seg.isReversed THEN serializeReversed(seg, commands, data, morphData, shape, last)
  ELSE
    LET dataEnd == seg.dataEnd \div 4
        dataPosition == seg.dataStart \div 4
        md == [on |-> seg.isMorph, data |-> morphData,
               offset |-> (seg.morphDataStart \div 4) - dataPosition]
        offset == IF At(data, dataPosition) = last.x /\ At(data, dataPosition + 1) = last.y
                  THEN 1 ELSE 0
        commandsCount == seg.commandsEnd - seg.commandsStart
    IN [shape |-> serializeForwardLoop(shape, commands, data, md, seg.commandsStart, offset,
                                       commandsCount, dataPosition + offset * 2),
        last |-> [x |-> At(data, dataEnd - 2), y |-> At(data, dataEnd - 1)]]

\* ---------------------------------------- part_005: SegmentedPath.serialize

\* 1 << 24, the multiplier of the y coordinate in a point key.
PointKeyShift == 16777216

\* PathSegment.storeStartAndEnd
storeStartAndEnd(seg, data) ==
  LET pos1 == seg.dataStart \div 4
      endPoint1 == At(data, pos1) + At(data, pos1 + 1) * PointKeyShift
      pos2 == (seg.dataEnd \div 4) - 2
      endPoint2 == At(data, pos2) + At(data, pos2 + 1) * PointKeyShift
  IN IF ~seg.isReversed
     THEN [seg EXCEPT !.startPoint = endPoint1, !.endPoint = endPoint2, !.flag = FALSE]
     ELSE [seg EXCEPT !.startPoint = endPoint2, !.endPoint = endPoint1, !.flag = FALSE]

\* PathSegment.flipDirection on pool entry s.
flipDirection(pool, s) ==
  [pool EXCEPT ![s].startPoint = pool[s].endPoint,
               ![s].endPoint = pool[s].startPoint,
               ![s].isReversed = ~pool[s].isReversed]

\* Map.set and Map.delete on the endpoint map (a function from keys to segments).
MapKeep(match, key) == match

MapSet(match, key, v) == [k \in (DOMAIN match) \cup {key} |-> IF k = key THEN v ELSE match[k]]

MapDelete(match, key) == [k \in (DOMAIN match) \ {key} |-> match[k]]

\* One endpoint of checkSegment: field is "prev" for startPoint, "next" for
\* endPoint.  c is [pool, match].
linkEndpoint(c, s, key, field) ==
  IF key \in DOMAIN c.match
  THEN LET p == c.match[key]
           pool1 == IF field = "prev" THEN [c.pool EXCEPT ![s].prev = p]
                                      ELSE [c.pool EXCEPT ![s].next = p]
           pool2 == IF pool1[p].prev # 0 THEN [pool1 EXCEPT ![p].next = s]
                                         ELSE [pool1 EXCEPT ![p].prev = s]
       IN [pool |-> pool2, match |-> MapDelete(c.match, key)]
  ELSE [pool |-> c.pool, match |-> MapSet(c.match, key, s)]

\* SegmentedPath.checkSegment on pool entry s.
checkSegment(c, s, data) ==
  LET stored == [storeStartAndEnd(c.pool[s], data) EXCEPT !.prev = 0, !.next = 0, !.flag = TRUE]
      c1 == linkEndpoint([pool |-> [c.pool EXCEPT ![s] = stored], match |-> c.match],
                         s, stored.startPoint, "prev")
  IN linkEndpoint(c1, s, stored.endPoint, "next")

\* The first loop of serialize: checkSegment from the last segment to the first.
RECURSIVE checkSegments(_, _, _, _)
checkSegments(c, segments, i, data) ==
  IF i < 1 THEN c ELSE checkSegments(checkSegment(c, segments[i], data), segments, i - 1, data)

\* n && (n.startPoint === seg.endPoint || n.endPoint === seg.endPoint)
touchesEnd(pool, n, seg) ==
  n # 0 /\ (pool[n].startPoint = pool[seg].endPoint \/ pool[n].endPoint = pool[seg].endPoint)

matchEndOf(pool, seg) ==
  IF touchesEnd(pool, pool[seg].next, seg) THEN 1
  ELSE IF touchesEnd(pool, pool[seg].prev, seg) THEN -1
  ELSE 0

\* "while (current !== seg && current)": the segment the search stops at, or
\* -1 when it has not stopped after `fuel` steps.  The loop is deterministic
\* in (prev, current), so more steps than there are such pairs means it
\* never stops.
RECURSIVE findStart(_, _, _, _, _)
findStart(pool, seg, prev, current, fuel) ==
  IF ~(current # seg /\ current # 0) THEN current
  ELSE IF fuel = 0 THEN -1
  ELSE LET next == IF pool[current].next = prev THEN pool[current].prev ELSE pool[current].next
       IN IF next = 0 THEN current
          ELSE findStart(pool, seg, current, next, fuel - 1)

\* "while (current && current.flag)": w is [pool, shape, last].
RECURSIVE emitWalk(_, _, _, _, _, _, _)
emitWalk(w, prev, prevPoint, current, commands, data, morphData) ==
  IF ~(current # 0 /\ w.pool[current].flag) THEN w
  ELSE LET pool1 == [w.pool EXCEPT ![current].flag = FALSE]
           pool2 == IF pool1[current].endPoint = prevPoint THEN flipDirection(pool1, current)
                    ELSE pool1
           r == serializeSegment(pool2[current], commands, data, morphData, w.shape, w.last)
           next == IF pool2[current].next = prev THEN pool2[current].prev ELSE pool2[current].next
       IN emitWalk([pool |-> pool2, shape |-> r.shape, last |-> r.last, diverged |-> w.diverged],
                   current, pool2[current].endPoint, next, commands, data, morphData)

\* One iteration of the second loop of serialize, for segments[i].
serializeFrom(w, seg0, commands, data, morphData) ==
  IF ~w.pool[seg0].flag THEN w
  ELSE
    LET pool == w.pool
        matchEnd0 == matchEndOf(pool, seg0)
        both == pool[seg0].next # 0 /\ pool[seg0].prev # 0
        first == IF touchesEnd(pool, pool[seg0].prev, seg0) THEN pool[seg0].next
                 ELSE IF matchEnd0 = -1 THEN pool[seg0].prev ELSE pool[seg0].next
        found == IF both THEN findStart(pool, seg0, seg0, first, Len(pool) * Len(pool) + 1)
                 ELSE seg0
    IN IF found = -1 THEN [w EXCEPT !.diverged = TRUE]
       ELSE
         LET seg == found
             matchEnd == IF seg # seg0 THEN matchEndOf(pool, seg) ELSE matchEnd0
             pool1 == IF matchEnd = 0 /\ (pool[seg].next # 0 \/ pool[seg].prev # 0)
                      THEN flipDirection(pool, seg) ELSE pool
             current == IF touchesEnd(pool1, pool1[seg].prev, seg) THEN pool1[seg].prev
                        ELSE pool1[seg].next
             r == serializeSegment(pool1[seg], commands, data, morphData, w.shape, w.last)
             pool2 == [pool1 EXCEPT ![seg].flag = FALSE]
         IN emitWalk([pool |-> pool2, shape |-> r.shape, last |-> r.last, diverged |-> w.diverged],
                     seg, pool2[seg].endPoint, current, commands, data, morphData)

\* The second loop of serialize: i from segments.length - 1 down to 0.
RECURSIVE serializeLoop(_, _, _, _, _, _)
serializeLoop(w, segments, i, commands, data, morphData) ==
  IF i < 1 \/ w.diverged THEN w
  ELSE serializeLoop(serializeFrom(w, segments[i], commands, data, morphData),
                     segments, i - 1, commands, data, morphData)

\* Math.min(Math.max(value, min), max)
clamp(value, min, max) == IF value < min THEN min ELSE IF value > max THEN max ELSE value

\* One call on the ShapeData: its command byte and the arguments it is given.
StyleCommand(command, style) ==
  [command |-> command, color |-> style.color, transform |-> style.transform,
   bitmapIndex |-> style.bitmapIndex, thickness |-> clamp(style.width, 0, 255 * 20),
   miterLimit |-> style.miterLimit]

writeStyle(shape, command, style) ==
  [shape EXCEPT !.commands = Append(shape.commands, command),
                !.styles = Append(shape.styles, StyleCommand(command, style))]

\* The default case of the fill switch of serializeStyle:
\* "release || assertUnreachable(...)" throws unless the build is a release.
styleAssertionFails(rel, style, isFill) ==
  ~rel /\ isFill /\ ~(style.type = "Solid" \/ IsGradient(style.type) \/ IsBitmap(style.type))

\* A property of style.morph: its own value, else that of style.
morphColor(style) ==
  IF style.morph[1].color # <<>> THEN style.morph[1].color[1] ELSE style.color

morphWidth(style) ==
  IF style.morph[1].width # <<>> THEN style.morph[1].width[1] ELSE <<style.width>>

morphTransformOf(style) ==
  IF style.morph[1].transform # <<>> THEN style.morph[1].transform[1] ELSE style.transform

\* writeMorphFill, writeMorphLineStyle, writeMorphGradient and writeMorphBitmap:
\* "if (morph)" the end-frame arguments of the style go to shape.morphStyles.
\* clamp(undefined, ...) | 0 is 0.
writeMorphStyle(shape, command, style) ==
  IF style.morph = <<>> THEN shape
  ELSE [shape EXCEPT !.morphStyles = Append(shape.morphStyles,
          [command |-> command,
           color |-> IF command \in {"MorphFill", "MorphLineStyle"} THEN morphColor(style) ELSE <<>>,
           thickness |-> IF command = "MorphLineStyle"
                         THEN (IF morphWidth(style) = <<>> THEN 0
                               ELSE clamp(morphWidth(style)[1], 0, 255 * 20))
                         ELSE 0,
           transform |-> IF command \in {"MorphGradient", "MorphBitmap"}
                         THEN morphTransformOf(style) ELSE <<>>])]

\* SegmentedPath.serializeStyle; isFill is "this.fillStyle" being set.
serializeStyle(shape, style, isFill) ==
  IF isFill
  THEN IF style.type = "Solid"
       THEN writeMorphStyle(writeStyle(shape, "BeginSolidFill", style), "MorphFill", style)
       ELSE IF IsGradient(style.type)
       THEN writeMorphStyle(writeStyle(shape, "BeginGradientFill", style), "MorphGradient", style)
       ELSE IF IsBitmap(style.type)
       THEN writeMorphStyle(writeStyle(shape, "BeginBitmapFill", style), "MorphBitmap", style)
       ELSE shape
  ELSE IF style.type = "Solid"
       THEN writeMorphStyle(writeStyle(shape, "LineStyleSolid", style), "MorphLineStyle", style)
       ELSE IF IsGradient(style.type)
       THEN writeMorphStyle(
              writeMorphStyle(
                writeStyle(writeStyle(shape, "LineStyleSolid", style), "LineStyleGradient", style),
                "MorphLineStyle", style),
              "MorphGradient", style)
       ELSE IF IsBitmap(style.type)
       THEN writeMorphStyle(
              writeMorphStyle(
                writeStyle(writeStyle(shape, "LineStyleSolid", style), "LineStyleBitmap", style),
                "MorphLineStyle", style),
              "MorphBitmap", style)
       ELSE shape

\* SegmentedPath.serialize of path object p: [pool, shape, diverged, ok];
\* ok = FALSE when serializeStyle throws.
serialize(m, p, shape) ==
  LET segments == m.paths[p].segments
      ref == m.paths[p].style
      isFill == ref.kind = "fill"
  IN IF Len(segments) = 0
     THEN [pool |-> m.pool, shape |-> shape, diverged |-> FALSE, ok |-> TRUE]
     ELSE IF styleAssertionFails(m.release, StyleAt(m.tag, ref), isFill)
     THEN [pool |-> m.pool, shape |-> shape, diverged |-> FALSE, ok |-> FALSE]
     ELSE LET s1 == serializeStyle(shape, StyleAt(m.tag, ref), isFill)
              c == checkSegments([pool |-> m.pool, match |-> << >>], segments, Len(segments), m.data)
              w == serializeLoop([pool |-> c.pool, shape |-> s1, last |-> [x |-> 0, y |-> 0],
                                  diverged |-> FALSE],
                                 segments, Len(segments), m.cmds, m.data, m.morph)
          IN [pool |-> w.pool,
              shape |-> [w.shape EXCEPT !.commands = Append(@, IF isFill THEN "EndFill" ELSE "LineEnd")],
              diverged |-> w.diverged, ok |-> TRUE]

\* clearShared
clearShared(m) == [m EXCEPT !.cmds = <<>>, !.data = <<>>, !.morph = <<>>, !.counter = 0]

\* ------------------------------------------------------------- the state

VARIABLES
  release,          \* the build: TRUE when "release ||" turns the assertions off
  decoder,          \* which decoder the caller uses
  plan,             \* what the caller decodes, call after call
  input,            \* the tag as the caller built it
  other,            \* a second tag of the caller, sharing no object with the first
  tag,              \* the tag object (defineShape writes into its styles)
  call,             \* how many calls have returned or thrown
  pc,               \* where the running call is
  results,          \* what each call returned or threw
  sharedCommands, sharedData, sharedMorphData, segmentsPool, segmentsCounter,   \* part_005 module state
  pathObjs,         \* the SegmentedPath objects of the running call
  dependencies, fillPaths, linePaths, allPaths, defaultPath,
  styles, segment, path, i, x, y, shape,
  j, morphX, morphY, \* the cursor and the pen of the end frame (recordsMorph)
  morphPath, ratio, \* CanvasRenderer.drawMorphPath: its arguments (ratio in 1 / RatioDen),
  renderPc, commandIndex, \* where it is, the command its loop is at,
  context,          \* and the calls it has made on the canvas context
  wrapper,          \* NodeCanvasRenderer: which of its two versions is built
  stage,            \* the children of the stage that is rendered
  stagePc, child,   \* CanvasRenderer.render: where it is, the child its loop is at
  canvasContext,    \* the drawing state of the canvas context and its stack of saved states
  renderer,         \* which CanvasRenderer object renders (0: none yet)
  shapeCache, morphShapeCache,   \* its caches: per definition, the decoding kept
  decodes,          \* history: the calls of decodeSwfShape and decodeSwfMorphShape
  used,             \* history: the decodings that were drawn
  outcomes,         \* history: per render call, the stack depths and whether it threw
  layers, leftFill, rightFill, lineFill,                        \* SwfShapeConverter
  edgeLog,          \* history: the edge records processed by the running call
  serialized        \* history: the style of each path written by the running call

vars == <<release, decoder, plan, input, other, tag, call, pc, results,
          sharedCommands, sharedData, sharedMorphData, segmentsPool, segmentsCounter,
          pathObjs, dependencies, fillPaths, linePaths, allPaths, defaultPath,
          styles, segment, path, i, x, y, shape, j, morphX, morphY,
          morphPath, ratio, renderPc, commandIndex, context,
          wrapper, stage, stagePc, child, canvasContext, renderer, shapeCache,
          morphShapeCache, decodes, used, outcomes,
          layers, leftFill, rightFill, lineFill, edgeLog, serialized>>

\* CanvasRenderer.render and what it works on.
stageVars == <<wrapper, stage, stagePc, child, canvasContext, renderer, shapeCache,
               morphShapeCache, decodes, used, outcomes>>

rendererVars == <<morphPath, ratio, renderPc, commandIndex, context, stageVars>>

\* What no decoder writes: the build, the caller's choices and the renderer.
callerVars == <<release, decoder, plan, input, other, rendererVars>>

part005Vars == <<sharedCommands, sharedData, sharedMorphData, segmentsPool, segmentsCounter,
                 pathObjs, dependencies, fillPaths, linePaths, allPaths, defaultPath,
                 styles, segment, path, shape, j, morphX, morphY, serialized>>

\* The locals of convertRecordsToShapeData.
localVars == <<fillPaths, linePaths, allPaths, defaultPath, styles, segment, path,
               i, x, y, j, morphX, morphY>>

converterVars == <<layers, leftFill, rightFill, lineFill>>

\* The memory record the part_005 operators work on.
Mem ==
  [cmds |-> sharedCommands, data |-> sharedData, morph |-> sharedMorphData, pool |-> segmentsPool,
   counter |-> segmentsCounter, paths |-> pathObjs, tag |-> tag,
   deps |-> dependencies, release |-> release, ok |-> TRUE]

Store(m) ==
  /\ sharedCommands' = m.cmds
  /\ sharedData' = m.data
  /\ sharedMorphData' = m.morph
  /\ segmentsPool' = m.pool
  /\ segmentsCounter' = m.counter
  /\ pathObjs' = m.paths
  /\ tag' = m.tag
  /\ dependencies' = m.deps

\* What a call hands back: a value, or the error it throws ("Error" is a
\* TypeError or a failed assertion of part_005).
Returned(value) == [ok |-> TRUE, error |-> "", value |-> value]

Thrown(error) == [ok |-> FALSE, error |-> error, value |-> <<>>]

\* The call ends (return or throw); the next call may start.
Finish(outcome) ==
  /\ results' = Append(results, outcome)
  /\ call' = call + 1
  /\ pc' = "idle"

\* -------------------------------------------------- part_005: the decoder

NoStyles == [fill0 |-> 0, fill1 |-> 0, line |-> 0]

\* The paths of the current tables in the other order: line paths, then fill paths.
pushPathsLinesFirst(all, fills, lines, default) ==
  (IF all = <<>> THEN <<>> ELSE all[1]) \o lines \o fills
  \o (IF default # 0 THEN <<default>> ELSE <<>>)

\* "push.apply(allPaths, fillPaths); push.apply(allPaths, linePaths);
\* if (defaultPath) allPaths.push(defaultPath)": the paths of the current
\* tables are appended to allPaths (<<>> when it is still undefined).
pushPaths(all, fills, lines, default) ==
  (IF all = <<>> THEN <<>> ELSE all[1]) \o fills \o lines
  \o (IF default # 0 THEN <<default>> ELSE <<>>)

\* The tags the caller decodes, call after call.  "repeat": the same tag
\* object MaxCalls times.  "interleave": the first tag, a second tag that
\* shares no object with it, and the first tag again, built anew.  "frames": a
\* morph tag, then its start records alone and its end records alone.
StartFrame(t) == [t EXCEPT !.recordsMorph = <<>>]

EndFrame(t) == [t EXCEPT !.records = t.recordsMorph[1], !.recordsMorph = <<>>]

Schedule ==
  CASE plan = "repeat" -> [k \in 1..MaxCalls |-> input]
    [] plan = "interleave" -> <<input, other, input>>
    [] plan = "frames" -> <<input, StartFrame(input), EndFrame(input)>>

\* The tag object the next call is given: under "repeat" the object the
\* earlier calls were given, else a new object.
Argument == IF plan = "repeat" THEN tag ELSE Schedule[call + 1]

\* recordsMorph[j] of the tag: <<>> is undefined.
MorphRecordAt(t, k) ==
  IF t.recordsMorph # <<>> /\ k >= 0 /\ k < Len(t.recordsMorph[1])
  THEN <<t.recordsMorph[1][k + 1]>> ELSE <<>>

\* convertRecordsToShapeData up to the first iteration of the record loop:
\* clearShared and the locals.
convertRecords(f, l) ==
  IF ~l.m.ok
  THEN /\ Store(l.m)
       /\ Finish(Thrown("Error"))
       /\ UNCHANGED <<localVars, shape, edgeLog, serialized>>
  ELSE /\ Store(clearShared(l.m))
       /\ fillPaths' = f.list
       /\ linePaths' = l.list
       /\ allPaths' = <<>>
       /\ defaultPath' = 0
       /\ styles' = NoStyles
       /\ segment' = 0
       /\ path' = 0
       /\ i' = 0 /\ x' = 0 /\ y' = 0
       /\ j' = 0 /\ morphX' = 0 /\ morphY' = 0
       /\ shape' = EmptyShapeData
       /\ edgeLog' = <<>>
       /\ serialized' = <<>>
       /\ pc' = "records"
       /\ UNCHANGED <<call, results>>

createLinePaths(f) == convertRecords(f, createPathsList(f.m, 0, "line"))

createFillPaths(m0) == createLinePaths(createPathsList(m0, 0, "fill"))

\* defineShape up to the first iteration of the record loop: createPathsList
\* for the tag's fill and line styles, then convertRecordsToShapeData.
DefineShape ==
  /\ decoder = "defineShape" /\ pc = "idle" /\ call < Len(Schedule)
  /\ createFillPaths([Mem EXCEPT !.tag = Argument, !.deps = <<>>, !.paths = <<>>])
  /\ UNCHANGED <<callerVars, converterVars>>

\* "if (record.flags & HasFillStyle0) styles.fill0 = record.fillStyle0" and
\* the same for fill1 and line.
updateSlots(record, styles0) ==
  [fill0 |-> IF "HasFillStyle0" \in record.flags THEN record.fillStyle0 ELSE styles0.fill0,
   fill1 |-> IF "HasFillStyle1" \in record.flags THEN record.fillStyle1 ELSE styles0.fill1,
   line |-> IF "HasLineStyle" \in record.flags THEN record.lineStyle ELSE styles0.line]

\* The path the new segment is recorded in: that of fill1, else that of the
\* line, else that of fill0; with no slot set, path keeps its value.
choosePath(styles1, fills, lines, path0) ==
  IF styles1.fill1 # 0 THEN PathAt(fills, styles1.fill1)
  ELSE IF styles1.line # 0 THEN PathAt(lines, styles1.line)
  ELSE IF styles1.fill0 # 0 THEN PathAt(fills, styles1.fill0)
  ELSE path0

\* "segment = PathSegment.FromDefaults(isMorph); path.addSegment(segment)" and
\* the move that starts the segment.  For a morph the end pen is the move of
\* the paired record when that is a style change, else the start pen.
segmentStart(m2, isMorph, path1, x1, y1, mx1, my1) ==
  IF path1 = 0 THEN m2
  ELSE IF isMorph
  THEN morphMoveTo(addSegment(FromDefaults(m2, TRUE), path1, m2.counter + 1),
                   m2.counter + 1, x1, y1, mx1, my1)
  ELSE moveTo(addSegment(FromDefaults(m2, FALSE), path1, m2.counter + 1),
              m2.counter + 1, x1, y1)

\* The end of the style-change branch: the pen moves, and "if (path)" a new
\* segment is created in the chosen path and starts at the pen.  mr is the
\* record of the end frame read at the top of the loop (<<>>: undefined);
\* reading its type when there is none throws.
startSegment(record, new, m2, fills, lines, styles1, path1, x1, y1, isMorph, mr) ==
  IF ~m2.ok
  THEN /\ Store(m2)
       /\ Finish(Thrown("Error"))
       /\ UNCHANGED localVars
  ELSE IF path1 # 0 /\ isMorph /\ mr = <<>>
  THEN /\ Store(addSegment(FromDefaults(m2, TRUE), path1, m2.counter + 1))
       /\ Finish(Thrown("Error"))
       /\ UNCHANGED localVars
  ELSE LET paired == path1 # 0 /\ isMorph
           mx1 == IF paired THEN (IF mr[1].type = 0 THEN ToInt32(mr[1].moveX) ELSE x1) ELSE morphX
           my1 == IF paired THEN (IF mr[1].type = 0 THEN ToInt32(mr[1].moveY) ELSE y1) ELSE morphY
       IN /\ Store(segmentStart(m2, isMorph, path1, x1, y1, mx1, my1))
          /\ fillPaths' = fills
          /\ linePaths' = lines
          /\ allPaths' = IF new THEN <<pushPaths(allPaths, fillPaths, linePaths, defaultPath)>>
                         ELSE allPaths
          /\ defaultPath' = IF new THEN 0 ELSE defaultPath
          /\ styles' = styles1
          /\ path' = path1
          /\ segment' = IF path1 # 0 THEN m2.counter + 1 ELSE segment
          /\ x' = x1 /\ y' = y1
          /\ morphX' = mx1 /\ morphY' = my1
          /\ j' = IF ~isMorph THEN j
                  ELSE IF paired /\ mr[1].type # 0 THEN j
                  ELSE j + 1
          /\ i' = i + 1
          /\ UNCHANGED <<call, pc, results>>

\* The slots and the path, once the tables of the record are known.
changeSlots(record, new, m2, fills, lines, styles1) ==
  startSegment(record, new, m2, fills, lines, styles1,
               choosePath(styles1, fills, lines, path),
               IF "Move" \in record.flags THEN ToInt32(record.moveX) ELSE x,
               IF "Move" \in record.flags THEN ToInt32(record.moveY) ELSE y,
               m2.tag.recordsMorph # <<>>, MorphRecordAt(m2.tag, j))

\* "if (record.flags & HasNewStyles)": l is createPathsList for the record's
\* line styles, run after f, that for its fill styles; the slots are reset.
changeTables(record, new, m1, f, l) ==
  changeSlots(record, new,
              IF ~m1.ok \/ ~new THEN m1 ELSE l.m,
              IF new THEN f.list ELSE fillPaths,
              IF new THEN l.list ELSE linePaths,
              updateSlots(record, IF new THEN NoStyles ELSE styles))

newLinePaths(record, new, m1, f) ==
  changeTables(record, new, m1, f, createPathsList(f.m, i + 1, "line"))

newFillPaths(record, new, m1) ==
  newLinePaths(record, new, m1, createPathsList(m1, i + 1, "fill"))

\* One iteration of the record loop on a record of type 0.
StyleChangeRecord ==
  /\ decoder = "defineShape" /\ pc = "records" /\ i < Len(tag.records)
  /\ tag.records[i + 1].type = 0
  /\ newFillPaths(tag.records[i + 1], "HasNewStyles" \in tag.records[i + 1].flags,
                  applySegmentToStyles(Mem, segment, styles, linePaths, fillPaths))
  /\ UNCHANGED <<callerVars, shape, converterVars, edgeLog, serialized>>

\* "while (morphRecord && morphRecord.type === 0) morphRecord = recordsMorph[j++]":
\* the index of the record of the end frame the edge is paired with, k being
\* the index read at the top of the loop.  An index past the end is undefined.
RECURSIVE skipMoves(_, _)
skipMoves(recordsMorph, k) ==
  IF k >= Len(recordsMorph) THEN k
  ELSE IF recordsMorph[k + 1].type = 0 THEN skipMoves(recordsMorph, k + 1)
  ELSE k

\* Where an edge record leads from pen (px, py): its control point and its
\* end.  For a straight edge the control point is the one of the curve it
\* becomes when the other frame has a curve: the pen plus half the delta.
edgeGeometry(record, px, py) ==
  IF "IsStraight" \in record.flags
  THEN [cx |-> px + Shr1(record.deltaX), cy |-> py + Shr1(record.deltaY),
        x |-> px + ToInt32(record.deltaX), y |-> py + ToInt32(record.deltaY)]
  ELSE [cx |-> ToInt32(px + record.controlDeltaX), cy |-> ToInt32(py + record.controlDeltaY),
        x |-> ToInt32(ToInt32(px + record.controlDeltaX) + record.anchorDeltaX),
        y |-> ToInt32(ToInt32(py + record.controlDeltaY) + record.anchorDeltaY)]

\* The command of the edge: a line when the record is straight and, for a
\* morph, the paired record is straight too; else a curve.
edgeCommand(m2, s, isMorph, isLine, start, end) ==
  IF isLine
  THEN (IF isMorph THEN morphLineTo(m2, s, start.x, start.y, end.x, end.y)
        ELSE lineTo(m2, s, start.x, start.y))
  ELSE (IF isMorph
        THEN morphCurveTo(m2, s, start.cx, start.cy, start.x, start.y, end.cx, end.cy, end.x, end.y)
        ELSE curveTo(m2, s, start.cx, start.cy, start.x, start.y))

\* The edge is appended to segment s.  k is the index of the paired record
\* of the end frame; past the end of recordsMorph the record is its own pair.
drawEdge(record, isMorph, m2, defaultPath1, s, k) ==
  LET morphRecord == IF MorphRecordAt(m2.tag, k) = <<>> THEN record ELSE MorphRecordAt(m2.tag, k)[1]
      isLine == "IsStraight" \in record.flags
                /\ (~isMorph \/ "IsStraight" \in morphRecord.flags)
      start == edgeGeometry(record, x, y)
      end == edgeGeometry(morphRecord, morphX, morphY)
  IN /\ Store(edgeCommand(m2, s, isMorph, isLine, start, end))
     /\ defaultPath' = defaultPath1
     /\ segment' = s
     /\ x' = start.x /\ y' = start.y
     /\ morphX' = IF isMorph THEN end.x ELSE morphX
     /\ morphY' = IF isMorph THEN end.y ELSE morphY
     /\ j' = IF isMorph THEN k + 1 ELSE j
     /\ i' = i + 1
     /\ edgeLog' = Append(edgeLog,
          [record |-> i + 1, command |-> Len(m2.cmds), data |-> Len(m2.data),
           morphData |-> Len(m2.morph),
           paired |-> IF MorphRecordAt(m2.tag, k) = <<>> THEN 0 ELSE k + 1,
           startX |-> x, startY |-> y, endX |-> start.x, endY |-> start.y,
           morphStartX |-> morphX, morphStartY |-> morphY])
     /\ UNCHANGED <<call, pc, results, fillPaths, linePaths, allPaths, styles, path>>

\* "if (!segment)": the segment of the default path is created and starts at
\* the pen.
defaultSegment(record, isMorph, m1, defaultPath1, s) ==
  drawEdge(record, isMorph,
           IF segment # 0 THEN m1
           ELSE IF isMorph
           THEN morphMoveTo(addSegment(FromDefaults(m1, TRUE), defaultPath1, s), s, x, y,
                            morphX, morphY)
           ELSE moveTo(addSegment(FromDefaults(m1, FALSE), defaultPath1, s), s, x, y),
           defaultPath1, s,
           IF isMorph THEN skipMoves(m1.tag.recordsMorph[1], j) ELSE j)

\* "if (!defaultPath)": the default path is created.
openDefaultPath(record, isMorph, m1) ==
  defaultSegment(record, isMorph, m1,
                 IF segment = 0 /\ defaultPath = 0 THEN Len(m1.paths) ELSE defaultPath,
                 IF segment = 0 THEN m1.counter + 1 ELSE segment)

\* One iteration of the record loop on any other record (an edge).
\* "release || assert(record.type === 1)" comes first.
EdgeRecord ==
  /\ decoder = "defineShape" /\ pc = "records" /\ i < Len(tag.records)
  /\ tag.records[i + 1].type # 0
  /\ IF ~release /\ tag.records[i + 1].type # 1
     THEN /\ Finish(Thrown("Error"))
          /\ UNCHANGED <<tag, sharedCommands, sharedData, sharedMorphData, segmentsPool,
                         segmentsCounter, pathObjs, dependencies, localVars, edgeLog>>
     ELSE openDefaultPath(tag.records[i + 1], tag.recordsMorph # <<>>,
                          IF segment = 0 /\ defaultPath = 0
                          THEN newSegmentedPath(Mem, StyleRef(0, "default", 0)) ELSE Mem)
  /\ UNCHANGED <<callerVars, shape, converterVars, serialized>>

\* After the record loop: the last segment is applied and allPaths is put
\* together; the ShapeData is created.
EndOfRecords ==
  /\ decoder = "defineShape" /\ pc = "records" /\ i = Len(tag.records)
  /\ LET m1 == applySegmentToStyles(Mem, segment, styles, linePaths, fillPaths)
     IN IF ~m1.ok
        THEN /\ Store(m1)
             /\ Finish(Thrown("Error"))
             /\ UNCHANGED <<allPaths, i, shape>>
        ELSE /\ Store(m1)
             /\ allPaths' = <<pushPaths(allPaths, fillPaths, linePaths, defaultPath)>>
             /\ shape' = EmptyShapeData
             /\ i' = 0
             /\ pc' = "serialize"
             /\ UNCHANGED <<call, results>>
  /\ UNCHANGED <<callerVars, fillPaths, linePaths, defaultPath, styles, segment, path,
                 x, y, j, morphX, morphY, converterVars, edgeLog, serialized>>

\* One iteration of "allPaths[i].serialize(shape)".  When the search for the
\* start of a sequence never stops, the call never returns; when
\* serializeStyle throws, the call ends.
serializePath(p, r) ==
  IF ~r.ok
  THEN /\ Finish(Thrown("Error"))
       /\ UNCHANGED <<segmentsPool, shape, serialized, i>>
  ELSE /\ segmentsPool' = r.pool
       /\ shape' = r.shape
       /\ pc' = IF r.diverged THEN "diverged" ELSE "serialize"
       /\ serialized' = IF Len(pathObjs[p].segments) = 0 THEN serialized
                        ELSE Append(serialized, pathObjs[p].style)
       /\ i' = i + 1
       /\ UNCHANGED <<call, results>>

SerializePath ==
  /\ decoder = "defineShape" /\ pc = "serialize" /\ i < Len(allPaths[1])
  /\ serializePath(allPaths[1][i + 1], serialize(Mem, allPaths[1][i + 1], shape))
  /\ UNCHANGED <<callerVars, tag, sharedCommands, sharedData, sharedMorphData,
                 segmentsCounter, pathObjs, dependencies, fillPaths, linePaths, allPaths,
                 defaultPath, styles, segment, path, x, y, j, morphX, morphY, converterVars,
                 edgeLog>>

\* defineShape returns: the ShapeData and the dependencies.
ReturnShape ==
  /\ decoder = "defineShape" /\ pc = "serialize" /\ i = Len(allPaths[1])
  /\ Finish(Returned([shape |-> shape, require |-> dependencies]))
  /\ UNCHANGED <<callerVars, tag, part005Vars, i, x, y, converterVars, edgeLog>>

\* ------------------------------------------------ shape.ts: the converter

\* The members of a record as toSimpleShape reads them.
recordLeftFill(record) == IF "HasFillStyle0" \in record.flags THEN <<record.fillStyle0>> ELSE <<>>

recordRightFill(record) == IF "HasFillStyle1" \in record.flags THEN <<record.fillStyle1>> ELSE <<>>

\* this.<set>.segments.push(segment) when the set is defined.
pushSegment(ls, ref, seg) ==
  IF ref = <<>> THEN ls
  ELSE [ls EXCEPT ![ref[1]].fills[ref[2]].segments = Append(@, seg)]

pushLineSegment(ls, ref, seg) ==
  IF ref = <<>> THEN ls
  ELSE [ls EXCEPT ![ref[1]].lines[ref[2]].segments = Append(@, seg)]

\* toSimpleShape up to the first record: new SwfShapeConverter(...).
NewSwfShapeConverter ==
  /\ decoder = "toSimpleShape" /\ pc = "idle" /\ call < Len(Schedule)
  /\ tag' = Argument
  /\ LET r == createStyleLayer(Argument.fillStyles, Argument.lineStyles)
     IN IF ~r.ok
        THEN /\ Finish(Thrown("Unknown fill type"))
             /\ UNCHANGED <<layers, leftFill, rightFill, lineFill, i, x, y, edgeLog>>
        ELSE /\ x' = 0 /\ y' = 0
             /\ layers' = <<r.layer>>
             /\ leftFill' = <<>>
             /\ rightFill' = <<>>
             /\ lineFill' = <<>>
             /\ i' = 0
             /\ edgeLog' = <<>>
             /\ pc' = "records"
             /\ UNCHANGED <<call, results>>
  /\ UNCHANGED <<callerVars, part005Vars>>

\* case StyleChange: converter.applyStyleChange(record)
ApplyStyleChange ==
  /\ decoder = "toSimpleShape" /\ pc = "records" /\ i < Len(tag.records)
  /\ tag.records[i + 1].type = 0
  /\ LET record == tag.records[i + 1]
         sets == layers[Len(layers)].fills
         left == IF recordLeftFill(record) # <<>>
                 THEN setFillById(sets, Len(layers), record.fillStyle0)
                 ELSE [ok |-> TRUE, ref |-> leftFill]
         right == IF recordRightFill(record) # <<>>
                  THEN setFillById(sets, Len(layers), record.fillStyle1)
                  ELSE [ok |-> TRUE, ref |-> rightFill]
         deltaX == record.moveX
         deltaY == record.moveY
     IN IF ~left.ok \/ ~right.ok
        THEN /\ Finish(Thrown("Invalid fill ID"))
             /\ UNCHANGED <<leftFill, rightFill, x, y, i>>
        ELSE /\ leftFill' = left.ref
             /\ rightFill' = right.ref
             /\ x' = IF deltaX # 0 \/ deltaY # 0 THEN deltaX ELSE x
             /\ y' = IF deltaX # 0 \/ deltaY # 0 THEN deltaY ELSE y
             /\ i' = i + 1
             /\ UNCHANGED <<call, pc, results>>
  /\ UNCHANGED <<callerVars, tag, part005Vars, layers, lineFill, edgeLog>>

\* case StraightEdge: converter.applyStraightEdge(record)
ApplyStraightEdge ==
  /\ decoder = "toSimpleShape" /\ pc = "records" /\ i < Len(tag.records)
  /\ tag.records[i + 1].type = 1 /\ "IsStraight" \in tag.records[i + 1].flags
  /\ LET record == tag.records[i + 1]
         endX == x + record.deltaX
         endY == y + record.deltaY
         l1 == pushSegment(layers, leftFill, createStraightSegment(x, y, endX, endY))
         l2 == pushSegment(l1, rightFill, createStraightSegment(endX, endY, x, y))
         l3 == pushLineSegment(l2, lineFill, createStraightSegment(x, y, endX, endY))
     IN /\ layers' = l3
        /\ x' = endX /\ y' = endY
        /\ edgeLog' = Append(edgeLog, [record |-> i + 1, command |-> 0,
                                       startX |-> x, startY |-> y, endX |-> endX, endY |-> endY])
  /\ i' = i + 1
  /\ UNCHANGED <<callerVars, tag, call, pc, results, part005Vars, leftFill, rightFill,
                 lineFill>>

\* case CurvedEdge: converter.applyCurvedEdge(record).  The record's deltaX
\* and deltaY are the anchor relative to the start of the edge.
ApplyCurvedEdge ==
  /\ decoder = "toSimpleShape" /\ pc = "records" /\ i < Len(tag.records)
  /\ tag.records[i + 1].type = 1 /\ "IsStraight" \notin tag.records[i + 1].flags
  /\ LET record == tag.records[i + 1]
         controlX == x + record.controlDeltaX
         controlY == y + record.controlDeltaY
         endX == x + (record.controlDeltaX + record.anchorDeltaX)
         endY == y + (record.controlDeltaY + record.anchorDeltaY)
         l1 == pushSegment(layers, leftFill, createCurvedSegment(x, y, controlX, controlY, endX, endY))
         l2 == pushSegment(l1, rightFill, createCurvedSegment(endX, endY, controlX, controlY, x, y))
         l3 == pushLineSegment(l2, lineFill, createCurvedSegment(x, y, controlX, controlY, endX, endY))
     IN /\ layers' = l3
        /\ x' = endX /\ y' = endY
        /\ edgeLog' = Append(edgeLog, [record |-> i + 1, command |-> 0,
                                       startX |-> x, startY |-> y, endX |-> endX, endY |-> endY])
  /\ i' = i + 1
  /\ UNCHANGED <<callerVars, tag, call, pc, results, part005Vars, leftFill, rightFill,
                 lineFill>>

\* The switch has no default case: a record of any other type is passed
\* over.
SkipRecord ==
  /\ decoder = "toSimpleShape" /\ pc = "records" /\ i < Len(tag.records)
  /\ tag.records[i + 1].type \notin {0, 1}
  /\ i' = i + 1
  /\ UNCHANGED <<callerVars, tag, call, pc, results, part005Vars, converterVars, x, y, edgeLog>>

\* return converter.getShape()
GetShape ==
  /\ decoder = "toSimpleShape" /\ pc = "records" /\ i = Len(tag.records)
  /\ Finish(Returned(getShape(layers)))
  /\ UNCHANGED <<callerVars, tag, part005Vars, converterVars, i, x, y, edgeLog>>

\* ------------------------------------------ CanvasRenderer.drawMorphPath

\* lerp(start, end, ratio) = end * ratio + start * (1 - ratio), for the ratio
\* n / RatioDen; the value is in units of 1 / RatioDen.
lerp(start, end, n) == end * n + start * (RatioDen - n)

lerpRgba(start, end, n) ==
  [r |-> lerp(start.r, end.r, n), g |-> lerp(start.g, end.g, n),
   b |-> lerp(start.b, end.b, n), a |-> lerp(start.a, end.a, n)]

\* A morph command: each coordinate is the pair <<start value, end value>>.
MorphMoveTo(xs, ys) ==
  [type |-> "MoveTo", x |-> xs, y |-> ys, controlX |-> <<0, 0>>, controlY |-> <<0, 0>>,
   endX |-> <<0, 0>>, endY |-> <<0, 0>>]

MorphLineTo(endX, endY) ==
  [type |-> "LineTo", x |-> <<0, 0>>, y |-> <<0, 0>>, controlX |-> <<0, 0>>,
   controlY |-> <<0, 0>>, endX |-> endX, endY |-> endY]

MorphCurveTo(controlX, controlY, endX, endY) ==
  [type |-> "CurveTo", x |-> <<0, 0>>, y |-> <<0, 0>>, controlX |-> controlX,
   controlY |-> controlY, endX |-> endX, endY |-> endY]

\* The context call of one command of the path, with its arguments.
drawMorphCommand(command, n) ==
  CASE command.type = "CurveTo" ->
         [op |-> "quadraticCurveTo",
          args |-> <<lerp(command.controlX[1], command.controlY[2], n),
                     lerp(command.controlY[1], command.controlY[2], n),
                     lerp(command.endX[1], command.endX[2], n),
                     lerp(command.endY[1], command.endY[2], n)>>]
    [] command.type = "LineTo" ->
         [op |-> "lineTo",
          args |-> <<lerp(command.endX[1], command.endX[2], n),
                     lerp(command.endY[1], command.endY[2], n)>>]
    [] command.type = "MoveTo" ->
         [op |-> "moveTo",
          args |-> <<lerp(command.x[1], command.x[2], n), lerp(command.y[1], command.y[2], n)>>]

\* "if (path.fill !== undefined)" and "if (path.line !== undefined)" after
\* the loop: the context calls, without those of a style that throws.
drawMorphFill(ctx, fill, n) ==
  IF fill = <<>> \/ fill[1].type # "Solid" THEN ctx
  ELSE ctx \o <<[op |-> "fillStyle", args |-> <<lerpRgba(fill[1].startColor, fill[1].endColor, n)>>],
               [op |-> "fill", args |-> <<>>]>>

drawMorphLine(ctx, line, n) ==
  IF line = <<>> \/ line[1].type # "Solid" THEN ctx
  ELSE ctx \o <<[op |-> "lineWidth", args |-> <<lerp(line[1].width[1], line[1].width[2], n)>>],
               [op |-> "strokeStyle",
                args |-> <<lerpRgba(line[1].startColor, line[1].endColor, n)>>],
               [op |-> "lineCap", args |-> <<"round">>],
               [op |-> "lineJoin", args |-> <<"round">>],
               [op |-> "stroke", args |-> <<>>]>>

\* drawMorphPath up to its loop: nothing is drawn for a path with neither
\* fill nor line, or with no command.
DrawMorphPath ==
  /\ renderPc = "idle"
  /\ IF (morphPath.fill = <<>> /\ morphPath.line = <<>>) \/ Len(morphPath.commands) = 0
     THEN renderPc' = "done" /\ UNCHANGED context
     ELSE /\ context' = Append(context, [op |-> "beginPath", args |-> <<>>])
          /\ renderPc' = "commands"
  /\ UNCHANGED <<release, decoder, plan, input, other, morphPath, ratio, commandIndex,
                 stageVars, tag, call, pc, results, part005Vars, i, x, y, converterVars,
                 edgeLog>>

\* One iteration of "for (const command of path.commands)"; a command of no
\* known type throws.
DrawMorphCommand ==
  /\ renderPc = "commands" /\ commandIndex < Len(morphPath.commands)
  /\ IF morphPath.commands[commandIndex + 1].type \in {"CurveTo", "LineTo", "MoveTo"}
     THEN /\ context' = Append(context, drawMorphCommand(morphPath.commands[commandIndex + 1], ratio))
          /\ commandIndex' = commandIndex + 1
          /\ UNCHANGED renderPc
     ELSE /\ renderPc' = "thrown"
          /\ UNCHANGED <<context, commandIndex>>
  /\ UNCHANGED <<release, decoder, plan, input, other, morphPath, ratio, stageVars,
                 tag, call, pc, results, part005Vars, i, x, y, converterVars, edgeLog>>

\* After the loop: the fill, then the line; a style that is not solid throws.
DrawMorphStyles ==
  /\ renderPc = "commands" /\ commandIndex = Len(morphPath.commands)
  /\ context' = IF morphPath.fill # <<>> /\ morphPath.fill[1].type # "Solid"
                THEN context
                ELSE drawMorphLine(drawMorphFill(context, morphPath.fill, ratio),
                                   morphPath.line, ratio)
  /\ renderPc' = IF \/ morphPath.fill # <<>> /\ morphPath.fill[1].type # "Solid"
                    \/ morphPath.line # <<>> /\ morphPath.line[1].type # "Solid"
                 THEN "thrown" ELSE "done"
  /\ UNCHANGED <<release, decoder, plan, input, other, morphPath, ratio, commandIndex,
                 stageVars, tag, call, pc, results, part005Vars, i, x, y, converterVars,
                 edgeLog>>

\* ------------------------------------------------- CanvasRenderer.render

\* The display objects of a stage.  A definition is the number of a tag
\* object; a matrix is a name.
ShapeObject(definition, matrix) ==
  [type |-> "Shape", definition |-> definition, ratio |-> 0, matrix |-> matrix, children |-> <<>>]

MorphShapeObject(definition, n) ==
  [type |-> "MorphShape", definition |-> definition, ratio |-> n, matrix |-> <<>>,
   children |-> <<>>]

Container(children, matrix) ==
  [type |-> "Container", definition |-> 0, ratio |-> 0, matrix |-> matrix, children |-> children]

\* A compiled path: the type of its fill and of its line, and the types of
\* its commands.
StagePath(fill, line, commands) == [fill |-> fill, line |-> line, commands |-> commands]

TwoCommands == <<"MoveTo", "LineTo">>

\* The tag objects of the caller, and what decodeSwfShape or
\* decodeSwfMorphShape does with each: it throws, or it returns the paths.
Definitions ==
  <<[throws |-> FALSE,
     paths |-> <<StagePath(<<[type |-> "Solid"]>>, <<[type |-> "Solid"]>>, TwoCommands),
                 StagePath(<<[type |-> "FocalGradient"]>>, <<>>, <<"MoveTo", "CurveTo">>),
                 StagePath(<<[type |-> "Bitmap"]>>, <<>>, TwoCommands),
                 StagePath(<<>>, <<>>, TwoCommands)>>],
    [throws |-> TRUE, paths |-> <<>>],
    [throws |-> FALSE,
     paths |-> <<StagePath(<<[type |-> "Solid"]>>, <<>>, TwoCommands),
                 StagePath(<<[type |-> "LinearGradient"]>>, <<>>, TwoCommands)>>],
    [throws |-> FALSE,
     paths |-> <<StagePath(<<[type |-> "Solid"]>>, <<[type |-> "Gradient"]>>, TwoCommands)>>],
    [throws |-> FALSE,
     paths |-> <<StagePath(<<[type |-> "Solid"]>>, <<[type |-> "Solid"]>>, TwoCommands)>>],
    [throws |-> TRUE, paths |-> <<>>],
    [throws |-> FALSE,
     paths |-> <<StagePath(<<[type |-> "Gradient"]>>, <<>>, TwoCommands)>>],
    [throws |-> FALSE,
     paths |-> <<StagePath(<<[type |-> "Solid"]>>, <<>>, <<"MoveTo", "Unknown">>)>>]>>

\* context.save(): the current drawing state is pushed.
save(ctx) == [ctx EXCEPT !.stack = Append(@, ctx.current)]

\* context.restore(): the last saved state becomes the current one; with
\* nothing saved it does nothing.
restore(ctx) ==
  IF ctx.stack = <<>> THEN ctx
  ELSE [stack |-> SubSeq(ctx.stack, 1, Len(ctx.stack) - 1), current |-> ctx.stack[Len(ctx.stack)]]

\* applyMatrix: context.transform(...)
applyMatrix(ctx, matrix) == [ctx EXCEPT !.current.transform = Append(@, matrix)]

\* What the drawing methods work on: the context, the two caches, the
\* histories, and whether an exception is on its way up.
Drawing ==
  [ctx |-> canvasContext, shapes |-> shapeCache, morphs |-> morphShapeCache,
   decodes |-> decodes, used |-> used, thrown |-> FALSE]

throw(c) == [c EXCEPT !.thrown = TRUE]

unknownCommand(pth) ==
  \E k \in 1..Len(pth.commands) : pth.commands[k] \notin {"CurveTo", "LineTo", "MoveTo"}

\* "if (pth.line !== undefined)" of drawPath.
strokePath(c, line) ==
  IF line = <<>> THEN c
  ELSE IF line[1].type # "Solid" THEN throw(c)
  ELSE [c EXCEPT !.ctx.current.lineWidth = 1, !.ctx.current.strokeStyle = "Solid"]

\* "if (pth.fill !== undefined)" of drawPath: save, the fill style (for a
\* focal gradient its matrix too), fill, restore.  The default case throws
\* after the save.
fillPath(c, fill) ==
  IF fill = <<>> THEN c
  ELSE IF fill[1].type \in {"Bitmap", "Solid"}
  THEN [c EXCEPT !.ctx = restore([save(c.ctx) EXCEPT !.current.fillStyle = fill[1].type])]
  ELSE IF fill[1].type = "FocalGradient"
  THEN [c EXCEPT !.ctx = restore([applyMatrix(save(c.ctx), "fill")
                                   EXCEPT !.current.fillStyle = fill[1].type])]
  ELSE throw([c EXCEPT !.ctx = save(c.ctx)])

\* The line of a pth is drawn unless its fill has thrown.
strokeFilled(c, line) == IF c.thrown THEN c ELSE strokePath(c, line)

\* CanvasRenderer.drawPath
drawPath(c, pth) ==
  IF (pth.fill = <<>> /\ pth.line = <<>>) \/ Len(pth.commands) = 0 THEN c
  ELSE IF unknownCommand(pth) THEN throw(c)
  ELSE strokeFilled(fillPath(c, pth.fill), pth.line)

\* CanvasRenderer.drawMorphPath as far as the drawing state goes: it saves
\* nothing, and throws on a command, fill or line it does not know.
drawMorphPath(c, pth) ==
  IF (pth.fill = <<>> /\ pth.line = <<>>) \/ Len(pth.commands) = 0 THEN c
  ELSE IF unknownCommand(pth) THEN throw(c)
  ELSE IF pth.fill # <<>> /\ pth.fill[1].type # "Solid" THEN throw(c)
  ELSE strokePath(IF pth.fill = <<>> THEN c ELSE [c EXCEPT !.ctx.current.fillStyle = "Solid"],
                  pth.line)

\* "for (const path of compiled.paths)"
RECURSIVE drawPaths(_, _, _, _)
drawPaths(c, paths, k, morph) ==
  IF k > Len(paths) \/ c.thrown THEN c
  ELSE drawPaths(IF morph THEN drawMorphPath(c, paths[k]) ELSE drawPath(c, paths[k]),
                 paths, k + 1, morph)

\* A call of decodeSwfShape or decodeSwfMorphShape is written down.
decoded(c, definition) ==
  [c EXCEPT !.decodes = Append(@, [renderer |-> renderer, definition |-> definition,
                                   ok |-> ~Definitions[definition].throws])]

\* getCompiledShape without the look-up: it decodes whenever it is called.
getCompiledShapeAnew(c, definition) ==
  IF Definitions[definition].throws THEN throw(decoded(c, definition))
  ELSE [decoded(c, definition) EXCEPT !.shapes = MapSet(@, definition, Len(c.decodes) + 1)]

\* getCompiledShape: the decoding in the cache, else a new one, which is
\* put in the cache when the decoder returns it.
getCompiledShape(c, definition) ==
  IF definition \in DOMAIN c.shapes THEN c
  ELSE IF Definitions[definition].throws THEN throw(decoded(c, definition))
  ELSE [decoded(c, definition) EXCEPT !.shapes = MapSet(@, definition, Len(c.decodes) + 1)]

\* getCompiledMorphShape
getCompiledMorphShape(c, definition) ==
  IF definition \in DOMAIN c.morphs THEN c
  ELSE IF Definitions[definition].throws THEN throw(decoded(c, definition))
  ELSE [decoded(c, definition) EXCEPT !.morphs = MapSet(@, definition, Len(c.decodes) + 1)]

\* The paths of the compiled shape are drawn; which decoding they are of is
\* written down.
drawCompiled(c, definition, morph) ==
  IF c.thrown THEN c
  ELSE drawPaths([c EXCEPT !.used = Append(@, [renderer |-> renderer, definition |-> definition,
                                               decoding |-> IF morph THEN c.morphs[definition]
                                                            ELSE c.shapes[definition]])],
                 Definitions[definition].paths, 1, morph)

\* "this.context.save(); try { if (matrix !== undefined) applyMatrix(matrix)":
\* the start of drawShape, drawMorphShape and drawContainer.
enter(c, obj) ==
  [c EXCEPT !.ctx = IF obj.matrix = <<>> THEN save(c.ctx)
                    ELSE applyMatrix(save(c.ctx), obj.matrix[1])]

\* "finally { this.context.restore(); }"
leave(c) == [c EXCEPT !.ctx = restore(c.ctx)]

\* CanvasRenderer.drawShape
drawShape(c, obj) ==
  leave(drawCompiled(getCompiledShape(enter(c, obj), obj.definition), obj.definition, FALSE))

\* CanvasRenderer.drawMorphShape
drawMorphShape(c, obj) ==
  leave(drawCompiled(getCompiledMorphShape(enter(c, obj), obj.definition), obj.definition, TRUE))

RECURSIVE drawDisplayObject(_, _)

\* "for (const child of container.children) this.drawDisplayObject(child)"
RECURSIVE drawChildren(_, _, _)
drawChildren(c, children, k) ==
  IF k > Len(children) \/ c.thrown THEN c
  ELSE drawChildren(drawDisplayObject(c, children[k]), children, k + 1)

\* CanvasRenderer.drawContainer
drawContainer(c, obj) == leave(drawChildren(enter(c, obj), obj.children, 1))

\* CanvasRenderer.drawDisplayObject
drawDisplayObject(c, obj) ==
  IF obj.type = "Container" THEN drawContainer(c, obj)
  ELSE IF obj.type = "Shape" THEN drawShape(c, obj)
  ELSE IF obj.type = "MorphShape" THEN drawMorphShape(c, obj)
  ELSE throw(c)

\* What CanvasRenderer.render leaves alone.
decoderVars == <<release, decoder, plan, input, other, tag, call, pc, results,
                 part005Vars, i, x, y, converterVars, edgeLog,
                 morphPath, ratio, renderPc, commandIndex, context>>

\* The render call that runs is over: how deep the stack of saved states is,
\* and whether the call threw.
endRender(ctx, thrown) ==
  /\ stagePc' = "idle"
  /\ outcomes' = [outcomes EXCEPT ![Len(outcomes)].after = Len(ctx.stack),
                                  ![Len(outcomes)].thrown = thrown]

\* NodeCanvasRenderer.render and CanvasRenderer.render up to the loop of
\* renderStage.  One version of NodeCanvasRenderer makes a new
\* CanvasRenderer, with empty caches, for every call; the other keeps the
\* one of its constructor.  renderStage resets the transform
\* (setTransform), clears the canvas and scales by 1 / 20.
Render ==
  /\ stagePc = "idle" /\ Len(outcomes) < MaxCalls
  /\ IF wrapper = "perRender"
     THEN /\ renderer' = renderer + 1
          /\ shapeCache' = <<>>
          /\ morphShapeCache' = <<>>
     ELSE UNCHANGED <<renderer, shapeCache, morphShapeCache>>
  /\ canvasContext' = [canvasContext EXCEPT !.current.transform = <<"scale">>]
  /\ child' = 0
  /\ stagePc' = "children"
  /\ outcomes' = Append(outcomes, [before |-> Len(canvasContext.stack), after |-> -1,
                                   thrown |-> FALSE])
  /\ UNCHANGED <<decoderVars, wrapper, stage, decodes, used>>

\* The child has been drawn, or drawing it has thrown, which ends render.
drawn(c) ==
  /\ canvasContext' = c.ctx
  /\ shapeCache' = c.shapes
  /\ morphShapeCache' = c.morphs
  /\ decodes' = c.decodes
  /\ used' = c.used
  /\ IF c.thrown
     THEN endRender(c.ctx, TRUE) /\ UNCHANGED child
     ELSE child' = child + 1 /\ UNCHANGED <<stagePc, outcomes>>

\* One iteration of "for (const child of stage.children)".
DrawDisplayObject ==
  /\ stagePc = "children" /\ child < Len(stage)
  /\ drawn(drawDisplayObject(Drawing, stage[child + 1]))
  /\ UNCHANGED <<decoderVars, wrapper, stage, renderer>>

\* render returns after the last child.
RenderReturns ==
  /\ stagePc = "children" /\ child = Len(stage)
  /\ endRender(canvasContext, FALSE)
  /\ UNCHANGED <<decoderVars, wrapper, stage, child, canvasContext, renderer, shapeCache,
                 morphShapeCache, decodes, used>>

\* ------------------------------------------------------------ the inputs

\* recordsMorph is <<>> (undefined) or <<the records of the end frame>>.
Tag(fillStyles, lineStyles, records) ==
  [fillStyles |-> fillStyles, lineStyles |-> lineStyles, records |-> records,
   recordsMorph |-> <<>>]

MorphTag(fillStyles, lineStyles, records, recordsMorph) ==
  [fillStyles |-> fillStyles, lineStyles |-> lineStyles, records |-> records,
   recordsMorph |-> <<recordsMorph>>]

\* The edges of the two-stroke tags.
Line10 == StraightEdge(1, 0)

Line01 == StraightEdge(0, 1)

Curve11 == CurvedEdge(1, 0, 0, 1)

\* The style change that opens a two-stroke tag.
FirstChanges ==
  {StyleChange(-1, 1, -1, <<>>), StyleChange(1, -1, -1, <<>>), StyleChange(-1, -1, 1, <<>>),
   StyleChange(1, 1, 1, <<>>), StyleChange(1, 2, 1, <<>>), StyleChange(-1, 1, -1, <<1, 1>>),
   StyleChange(3, -1, -1, <<>>), StyleChange(-1, -1, -1, <<>>)}

\* The style change between the two strokes: every way of leaving, clearing
\* or setting the three slots, a second fill, indices past the end of the
\* tables, moves, and new style tables.
SecondChanges ==
  {StyleChange(f0, f1, ln, <<>>) : f0 \in {-1, 0, 1}, f1 \in {-1, 0, 1}, ln \in {-1, 0, 1}}
  \cup {StyleChange(1, 2, -1, <<>>), StyleChange(2, 1, -1, <<>>), StyleChange(2, -1, -1, <<>>),
        StyleChange(-1, 2, -1, <<>>)}
  \cup {StyleChange(3, -1, -1, <<>>), StyleChange(-1, 3, -1, <<>>), StyleChange(-1, -1, 2, <<>>),
        StyleChange(3, 0, 0, <<>>), StyleChange(0, 3, 0, <<>>), StyleChange(0, 0, 2, <<>>)}
  \cup {StyleChange(-1, -1, -1, <<0, 0>>), StyleChange(-1, -1, -1, <<2, 2>>),
        StyleChange(-1, 1, -1, <<0, 0>>), StyleChange(0, 0, 0, <<0, 0>>)}
  \cup {NewStyles(StyleChange(f0, f1, ln, <<>>), <<SolidFill, SolidFill>>, <<ColorLine>>) :
          f0 \in {-1, 1}, f1 \in {-1, 2}, ln \in {-1, 1}}

TwoFills == <<SolidFill, SolidFill>>

StrokeTags ==
  {Tag(TwoFills, <<ColorLine>>, <<a, Line10, b, e>>) :
     a \in FirstChanges, b \in SecondChanges, e \in {Line01, Curve11}}
  \cup {Tag(TwoFills, <<ColorLine>>, <<a, Line10, b>>) : a \in FirstChanges, b \in SecondChanges}
  \cup {Tag(TwoFills, <<ColorLine>>, <<Line10, b, Line01>>) : b \in SecondChanges}
  \cup {Tag(TwoFills, <<ColorLine>>, <<a, b, Line10>>) : a \in FirstChanges, b \in SecondChanges}
  \cup {Tag(TwoFills, <<ColorLine>>, <<a, e>>) : a \in FirstChanges, e \in {Line10, Curve11}}
  \cup {Tag(TwoFills, <<ColorLine>>, <<a>>) : a \in FirstChanges}
  \cup {Tag(TwoFills, <<ColorLine>>, <<Line10>>), Tag(TwoFills, <<ColorLine>>, <<>>),
        Tag(<<>>, <<>>, <<Line10, Curve11>>)}

\* The unit square with corners (1,1), (2,1), (2,2), (1,2): side n runs from
\* corner n to corner n + 1.
Corner(n) == <<<<1, 1>>, <<2, 1>>, <<2, 2>>, <<1, 2>>>>[((n - 1) % 4) + 1]

\* The two records that draw one side as a stroke of its own: a style change
\* that moves to the start and selects fill 1 on the right, and the edge.
SideRecords(n, forward) ==
  LET from == IF forward THEN Corner(n) ELSE Corner(n + 1)
      to == IF forward THEN Corner(n + 1) ELSE Corner(n)
  IN <<StyleChange(-1, 1, -1, from), StraightEdge(to[1] - from[1], to[2] - from[2])>>

Permutations4 == {o \in [1..4 -> 1..4] : \A a, b \in 1..4 : a # b => o[a] # o[b]}

\* The four sides in every record order and every combination of directions.
RingTags ==
  {Tag(TwoFills, <<ColorLine>>,
       SideRecords(o[1], d[1]) \o SideRecords(o[2], d[2])
       \o SideRecords(o[3], d[3]) \o SideRecords(o[4], d[4])) :
     o \in Permutations4, d \in [1..4 -> BOOLEAN]}

\* Fill 1 and line 1 of every kind, used by one stroke.
FillKinds ==
  {SolidFill, GradientFill(<<>>), GradientFill(<<Matrix(2, 40)>>),
   BitmapFill(<<>>, 7), BitmapFill(<<Matrix(2, 40)>>, 7)}

LineKinds == {ColorLine, FillLine(SolidFill), FillLine(GradientFill(<<Matrix(2, 40)>>)),
              FillLine(BitmapFill(<<>>, 7))}

StyleTags ==
  {Tag(<<f, BitmapFill(<<>>, 7)>>, <<l>>, <<StyleChange(-1, 1, 1, <<>>), Line10>>) :
     f \in FillKinds, l \in LineKinds}

Tags == StrokeTags \cup RingTags \cup StyleTags

\* A fill style whose type is none the decoders know, and a record whose
\* type is neither 0 (style change) nor 1 (edge).
UnknownFill(matrix) == Style("Unknown", <<>>, matrix, 0, FALSE, <<>>)

UnknownRecord == [Record(2, {}) EXCEPT !.deltaX = 1, !.deltaY = 1]

UnknownKindTags ==
  {Tag(<<f, SolidFill>>, l, r) :
     f \in {UnknownFill(<<>>), UnknownFill(<<Matrix(2, 40)>>)},
     l \in {<<ColorLine>>, <<FillLine(UnknownFill(<<>>))>>},
     r \in {<<>>, <<Line10>>, <<StyleChange(-1, 1, -1, <<>>), Line10>>,
            <<StyleChange(-1, 2, 1, <<>>), Line10>>}}
  \cup {Tag(TwoFills, <<ColorLine>>,
            <<StyleChange(-1, 1, -1, <<>>), Line10,
              NewStyles(StyleChange(-1, f1, -1, <<>>), <<UnknownFill(<<>>)>>, <<ColorLine>>),
              Line01>>) : f1 \in {-1, 1}}

UnknownRecordTags ==
  {Tag(TwoFills, <<ColorLine>>, r) :
     r \in {<<UnknownRecord>>, <<Line10, UnknownRecord>>, <<UnknownRecord, Line10>>,
            <<StyleChange(-1, 1, -1, <<>>), UnknownRecord>>,
            <<StyleChange(-1, 1, -1, <<>>), Line10, UnknownRecord, Line01>>,
            <<StyleChange(-1, 1, 1, <<1, 1>>), UnknownRecord, Line01>>}}

\* Line styles of every miter limit factor: none, 0, and factors below and
\* above 1.5.
MiterLine(factor) == [ColorLine EXCEPT !.miterLimitFactor = factor]

MiterFactors == {<<>>, <<0>>, <<1>>, <<2>>, <<3>>}

MiterTags ==
  {Tag(TwoFills, <<MiterLine(f), MiterLine(g)>>, r) :
     f \in MiterFactors, g \in {<<1>>, <<3>>},
     r \in {<<StyleChange(-1, -1, 1, <<>>), Line10>>,
            <<StyleChange(-1, 1, 2, <<>>), Line10, Line01>>}}

\* Bitmap fills of equal and of different ids, in the tables of the tag, in
\* line styles and in the tables of a style change.
BitmapIds == {7, 8}

BitmapTags ==
  {Tag(<<BitmapFill(<<>>, a), BitmapFill(<<>>, b), BitmapFill(<<>>, c)>>,
       <<FillLine(BitmapFill(<<>>, d))>>,
       <<StyleChange(-1, 1, 1, <<>>), Line10,
         NewStyles(StyleChange(-1, 2, -1, <<>>),
                   <<BitmapFill(<<>>, 9), BitmapFill(<<>>, e)>>, <<ColorLine>>),
         Line01>>) :
     a \in BitmapIds, b \in BitmapIds, c \in BitmapIds, d \in BitmapIds, e \in {7, 9}}

\* Morph tags: the styles carry the values of the end frame, and
\* recordsMorph the records of the end frame.
Blue == [r |-> 0, g |-> 0, b |-> 255, a |-> 255]

MorphSolidFill == [SolidFill EXCEPT !.colorMorph = <<Blue>>]

MorphLine == [ColorLine EXCEPT !.colorMorph = <<Blue>>, !.widthMorph = <<40>>]

MorphFills == <<MorphSolidFill, MorphSolidFill>>

StartEdges == {Line10, Curve11}

EndEdges == {StraightEdge(-3, 1), CurvedEdge(1, -1, 2, 0)}

StartFrames ==
  {<<a, e>> : a \in {StyleChange(-1, 1, -1, <<0, 0>>), StyleChange(-1, 1, 1, <<1, 1>>)},
             e \in StartEdges}
  \cup {<<StyleChange(-1, 1, -1, <<0, 0>>), e, b, f>> :
          e \in StartEdges, f \in StartEdges,
          b \in {StyleChange(-1, -1, -1, <<1, 0>>), StyleChange(-1, 2, -1, <<3, 3>>)}}
  \cup {<<e, f>> : e \in StartEdges, f \in StartEdges}

EndFrames ==
  {<<a, e>> : a \in {StyleChange(-1, 1, -1, <<0, 0>>), StyleChange(-1, 1, -1, <<5, 5>>)},
             e \in EndEdges}
  \cup {<<StyleChange(-1, 1, -1, <<0, 0>>), e, b, f>> :
          e \in EndEdges, f \in EndEdges,
          b \in {StyleChange(-1, -1, -1, <<2, 0>>), StyleChange(-1, 2, -1, <<3, 3>>)}}
  \cup {<<e, f>> : e \in EndEdges, f \in EndEdges}
  \cup {<<StyleChange(-1, 1, -1, <<5, 5>>)>>, <<>>}

MorphTags ==
  {MorphTag(MorphFills, <<MorphLine>>, s, e) : s \in StartFrames, e \in EndFrames}

\* The tags of a caller that decodes a second tag between two decodings of
\* the first.
FirstTags ==
  {Tag(TwoFills, <<ColorLine>>, r) :
     r \in {<<StyleChange(-1, 1, -1, <<>>), Line10, Line01>>,
            <<StyleChange(1, 2, 1, <<1, 1>>), Line10, StyleChange(-1, -1, -1, <<0, 0>>), Curve11>>,
            <<Line10, Curve11>>}}
  \cup {Tag(<<BitmapFill(<<>>, 7), SolidFill>>, <<ColorLine>>,
            <<StyleChange(-1, 1, -1, <<>>), Line10>>),
        MorphTag(MorphFills, <<MorphLine>>,
                 <<StyleChange(-1, 1, -1, <<0, 0>>), Line10>>,
                 <<StyleChange(-1, 1, -1, <<5, 5>>), StraightEdge(-3, 1)>>)}

SecondTags ==
  {Tag(<<BitmapFill(<<>>, 8), GradientFill(<<>>)>>, <<ColorLine, ColorLine>>, r) :
     r \in {<<>>, <<StyleChange(1, 2, 2, <<4, 4>>), Curve11, Line10, Line01>>,
            <<Line01>>, <<StyleChange(3, -1, -1, <<>>), Line10>>,
            <<StyleChange(-1, 1, -1, <<>>), Line10, StyleChange(0, 2, 0, <<>>), Line01>>}}
  \cup {MorphTag(MorphFills, <<MorphLine>>,
                 <<StyleChange(-1, 2, 1, <<2, 2>>), Curve11, Line10>>,
                 <<StyleChange(-1, 2, 1, <<3, 3>>), StraightEdge(-3, 1), StraightEdge(1, 1)>>)}

\* Two strokes of fill 1 whose nearest endpoints are (PointKeyShift, 0) and
\* (0, 1), two different points, and the same two strokes meeting at
\* (PointKeyShift, 0).
FarTags ==
  {Tag(TwoFills, <<ColorLine>>,
       <<StyleChange(-1, 1, -1, <<0, 0>>), StraightEdge(PointKeyShift, 0),
         StyleChange(-1, -1, -1, to), StraightEdge(1, 1)>>) :
     to \in {<<0, 1>>, <<PointKeyShift, 0>>}}

\* Buckets of every connectivity: MaxStrokes strokes of fill 1 between three
\* points, each a move to one of the points followed by an edge to another
\* of them, or a move to the origin and no edge.  Among them are open chains,
\* closed loops, two strokes that run between the same two points, strokes
\* without an edge, and points where three or more strokes meet.
MaxStrokes == 3

KnotPoints == {<<0, 0>>, <<1, 0>>, <<0, 1>>}

Stroke(from, to) ==
  IF to = from THEN <<StyleChange(-1, 1, -1, from)>>
  ELSE <<StyleChange(-1, 1, -1, from), StraightEdge(to[1] - from[1], to[2] - from[2])>>

Strokes ==
  {Stroke(e[1], e[2]) : e \in {e \in KnotPoints \X KnotPoints : e[1] # e[2]}}
  \cup {Stroke(<<0, 0>>, <<0, 0>>)}

RECURSIVE Flatten(_)
Flatten(seq) == IF seq = <<>> THEN <<>> ELSE Head(seq) \o Flatten(Tail(seq))

KnotTags ==
  {Tag(TwoFills, <<ColorLine>>, Flatten(s)) : s \in [1..MaxStrokes -> Strokes]}

Decoders == {"defineShape", "toSimpleShape"}

\* The build (release or debug), the decoder, and what the caller decodes.
Callers ==
  \/ /\ decoder = "defineShape"
     /\ release \in BOOLEAN
     /\ \/ /\ plan = "repeat"
           /\ input \in Tags \cup UnknownKindTags \cup UnknownRecordTags \cup MiterTags
                         \cup BitmapTags \cup MorphTags \cup FarTags \cup KnotTags
           /\ other = input
        \/ /\ plan = "interleave"
           /\ input \in FirstTags
           /\ other \in SecondTags
        \/ /\ plan = "frames"
           /\ input \in MorphTags
           /\ other = input
  \/ /\ decoder = "toSimpleShape"
     /\ release = TRUE
     /\ plan = "repeat"
     /\ input \in Tags \cup UnknownKindTags \cup UnknownRecordTags \cup MiterTags
     /\ other = input

\* The morph paths the renderer is given: up to MaxCommands commands whose
\* coordinates differ between the frames and between x and y.
MaxCommands == 2

CoordinatePairs == {<<0, 4>>, <<2, 6>>}

White == [r |-> 255, g |-> 255, b |-> 255, a |-> 255]

MorphCommands ==
  {MorphMoveTo(<<0, 4>>, <<2, 6>>), MorphLineTo(<<0, 4>>, <<2, 6>>),
   MorphLineTo(<<2, 6>>, <<2, 6>>)}
  \cup {MorphCurveTo(cx, cy, <<0, 4>>, <<2, 6>>) :
          cx \in CoordinatePairs, cy \in CoordinatePairs}
  \cup {[MorphMoveTo(<<0, 0>>, <<0, 0>>) EXCEPT !.type = "Unknown"]}

MorphFillStyles ==
  {<<>>, <<[type |-> "Solid", startColor |-> Red, endColor |-> White]>>,
   <<[type |-> "Gradient", startColor |-> Red, endColor |-> White]>>}

MorphLineStyles ==
  {<<>>, <<[type |-> "Solid", width |-> <<20, 60>>, startColor |-> Red, endColor |-> White]>>}

MorphPaths ==
  {[fill |-> f, line |-> l, commands |-> c] :
     f \in MorphFillStyles, l \in MorphLineStyles,
     c \in UNION {[1..n -> MorphCommands] : n \in 0..MaxCommands}}

\* No decoder runs and nothing was decoded.
DecoderIdle ==
  /\ tag = input
  /\ call = 0
  /\ pc = "idle"
  /\ results = <<>>
  /\ sharedCommands = <<>> /\ sharedData = <<>> /\ sharedMorphData = <<>>
  /\ segmentsPool = <<>> /\ segmentsCounter = 0
  /\ pathObjs = <<>> /\ dependencies = <<>> /\ fillPaths = <<>> /\ linePaths = <<>>
  /\ allPaths = <<>> /\ defaultPath = 0 /\ styles = NoStyles /\ segment = 0 /\ path = 0
  /\ i = 0 /\ x = 0 /\ y = 0
  /\ j = 0 /\ morphX = 0 /\ morphY = 0
  /\ shape = EmptyShapeData
  /\ layers = <<>> /\ leftFill = <<>> /\ rightFill = <<>> /\ lineFill = <<>>
  /\ edgeLog = <<>>
  /\ serialized = <<>>

\* A canvas context as getContext("2d") returns it: no saved state, no
\* transform, the default styles.
NewContext ==
  [stack |-> <<>>,
   current |-> [transform |-> <<>>, fillStyle |-> "", strokeStyle |-> "", lineWidth |-> 0]]

\* No stage is rendered.
StageOff ==
  /\ wrapper = "kept" /\ stage = <<>> /\ stagePc = "done" /\ child = 0
  /\ canvasContext = NewContext /\ renderer = 0
  /\ shapeCache = <<>> /\ morphShapeCache = <<>>
  /\ decodes = <<>> /\ used = <<>> /\ outcomes = <<>>

\* No morph path is drawn.
MorphPathOff ==
  /\ morphPath = [fill |-> <<>>, line |-> <<>>, commands |-> <<>>]
  /\ ratio = 0 /\ renderPc = "done" /\ commandIndex = 0 /\ context = <<>>

\* The renderer draws nothing.
RendererOff == MorphPathOff /\ StageOff

Init == Callers /\ DecoderIdle /\ RendererOff

Next ==
  \/ DefineShape
  \/ StyleChangeRecord
  \/ EdgeRecord
  \/ EndOfRecords
  \/ SerializePath
  \/ ReturnShape
  \/ NewSwfShapeConverter
  \/ ApplyStyleChange
  \/ ApplyStraightEdge
  \/ ApplyCurvedEdge
  \/ SkipRecord
  \/ GetShape

Spec == Init /\ [][Next]_vars

\* The renderer alone: drawMorphPath is called once, on any of the morph
\* paths and at any of the ratios.
RenderInit ==
  /\ release = TRUE /\ decoder = "none" /\ plan = "repeat"
  /\ input = Tag(<<>>, <<>>, <<>>) /\ other = input
  /\ DecoderIdle
  /\ morphPath \in MorphPaths
  /\ ratio \in 0..RatioDen
  /\ renderPc = "idle" /\ commandIndex = 0 /\ context = <<>>
  /\ StageOff

RenderNext ==
  \/ DrawMorphPath
  \/ DrawMorphCommand
  \/ DrawMorphStyles

RenderSpec == RenderInit /\ [][RenderNext]_vars

\* The stages that are rendered: up to MaxChildren children, each a shape,
\* a morph shape, a container or an object of no known type.  Definitions 1
\* to 4 and 8 are DefineShape tags, 5 to 7 DefineMorphShape tags.
MaxChildren == 2

Leaves ==
  {ShapeObject(1, <<>>), ShapeObject(1, <<"m">>), ShapeObject(2, <<>>), ShapeObject(3, <<>>),
   MorphShapeObject(5, 1), MorphShapeObject(6, 0),
   [ShapeObject(1, <<>>) EXCEPT !.type = "Unknown"]}

Containers ==
  {Container(<<>>, <<>>), Container(<<ShapeObject(1, <<>>), ShapeObject(1, <<>>)>>, <<"m">>),
   Container(<<ShapeObject(3, <<>>)>>, <<>>), Container(<<ShapeObject(4, <<>>)>>, <<>>),
   Container(<<ShapeObject(8, <<>>)>>, <<>>),
   Container(<<Container(<<MorphShapeObject(7, 1)>>, <<>>)>>, <<"m">>)}

Stages == UNION {[1..n -> Leaves \cup Containers] : n \in 0..MaxChildren}

\* A NodeCanvasRenderer of either version has been constructed; nothing
\* has been rendered.
StageInit ==
  /\ release = TRUE /\ decoder = "none" /\ plan = "repeat"
  /\ input = Tag(<<>>, <<>>, <<>>) /\ other = input
  /\ DecoderIdle
  /\ MorphPathOff
  /\ wrapper \in {"kept", "perRender"}
  /\ stage \in Stages
  /\ stagePc = "idle" /\ child = 0
  /\ canvasContext = NewContext
  /\ renderer = IF wrapper = "kept" THEN 1 ELSE 0
  /\ shapeCache = <<>> /\ morphShapeCache = <<>>
  /\ decodes = <<>> /\ used = <<>> /\ outcomes = <<>>

StageNext ==
  \/ Render
  \/ DrawDisplayObject
  \/ RenderReturns

StageSpec == StageInit /\ [][StageNext]_vars

\* ------------------------------------------------- reading the outputs

\* The paths of a ShapeData: the commands between a style command and the
\* EndFill / LineEnd that closes it.  cur is the path being read (<<>> when
\* none is open), ci the next coordinate.
RECURSIVE shapeDataPathsFrom(_, _, _, _, _)
shapeDataPathsFrom(sd, n, ci, cur, done) ==
  IF n > Len(sd.commands) THEN done \o cur
  ELSE
    LET c == sd.commands[n]
        open == IF cur = <<>> THEN [commands |-> <<>>, fill |-> <<>>, line |-> <<>>] ELSE cur[1]
    IN CASE c \in {"BeginSolidFill", "BeginGradientFill", "BeginBitmapFill"} ->
              shapeDataPathsFrom(sd, n + 1, ci, <<[commands |-> <<>>, fill |-> <<c>>, line |-> <<>>]>>,
                                 done \o cur)
         [] c = "LineStyleSolid" ->
              shapeDataPathsFrom(sd, n + 1, ci, <<[commands |-> <<>>, fill |-> <<>>, line |-> <<c>>]>>,
                                 done \o cur)
         [] c \in {"LineStyleGradient", "LineStyleBitmap"} ->
              shapeDataPathsFrom(sd, n + 1, ci, <<[open EXCEPT !.line = <<c>>]>>, done)
         [] c \in {"EndFill", "LineEnd"} ->
              shapeDataPathsFrom(sd, n + 1, ci, <<>>, Append(done, open))
         [] c \in {"MoveTo", "LineTo"} ->
              shapeDataPathsFrom(sd, n + 1, ci + 2,
                <<[open EXCEPT !.commands =
                     Append(@, Command(c, 0, 0, sd.coordinates[ci], sd.coordinates[ci + 1]))]>>,
                done)
         [] OTHER ->
              shapeDataPathsFrom(sd, n + 1, ci + 4,
                <<[open EXCEPT !.commands =
                     Append(@, Command(c, sd.coordinates[ci], sd.coordinates[ci + 1],
                                       sd.coordinates[ci + 2], sd.coordinates[ci + 3]))]>>,
                done)

ShapeDataPaths(sd) == shapeDataPathsFrom(sd, 1, 1, <<>>, <<>>)

\* The paths of what a call returned, whichever the decoder.
PathsOf(result) ==
  IF decoder = "defineShape" THEN ShapeDataPaths(result.value.shape) ELSE result.value.paths

\* The slots a record sequence leaves active after its first n records.
RECURSIVE ActiveSlots(_, _)
ActiveSlots(records, n) ==
  IF n = 0 THEN NoStyles
  ELSE LET record == records[n]
           before == ActiveSlots(records, n - 1)
           base == IF "HasNewStyles" \in record.flags THEN NoStyles ELSE before
       IN IF record.type # 0 THEN before
          ELSE [fill0 |-> IF "HasFillStyle0" \in record.flags THEN record.fillStyle0 ELSE base.fill0,
                fill1 |-> IF "HasFillStyle1" \in record.flags THEN record.fillStyle1 ELSE base.fill1,
                line |-> IF "HasLineStyle" \in record.flags THEN record.lineStyle ELSE base.line]

\* The record whose style tables are current after the first n records (0: the tag's).
RECURSIVE ActiveLayer(_, _)
ActiveLayer(records, n) ==
  IF n = 0 THEN 0
  ELSE IF records[n].type = 0 /\ "HasNewStyles" \in records[n].flags THEN n
  ELSE ActiveLayer(records, n - 1)

\* Every index a style change selects exists in the tables current at that record.
ValidTag(t) ==
  \A n \in 1..Len(t.records) :
    t.records[n].type = 0 =>
      LET layer == ActiveLayer(t.records, n)
          slots == ActiveSlots(t.records, n)
      IN /\ slots.fill0 <= Len(StyleTable(t, layer, "fill"))
         /\ slots.fill1 <= Len(StyleTable(t, layer, "fill"))
         /\ slots.line <= Len(StyleTable(t, layer, "line"))

\* The fill styles of a tag: those of its tables, of the tables its records
\* carry, and those its line styles are filled with.
FillStylesOf(t) ==
  LET tables == {t.fillStyles} \cup {t.records[n].fillStyles : n \in 1..Len(t.records)}
      lineTables == {t.lineStyles} \cup {t.records[n].lineStyles : n \in 1..Len(t.records)}
  IN UNION {{tb[n] : n \in 1..Len(tb)} : tb \in tables}
     \cup UNION {{tb[n].fillStyle[1] : n \in {n \in 1..Len(tb) : tb[n].fillStyle # <<>>}} :
                  tb \in lineTables}

KnownFillKind(type) == type = "Solid" \/ IsGradient(type) \/ IsBitmap(type)

HasUnknownFill(t) == \E f \in FillStylesOf(t) : ~KnownFillKind(f.type)

HasUnknownRecord(t) == \E n \in 1..Len(t.records) : t.records[n].type \notin {0, 1}

\* The caller decodes one shape tag (no morph) whose fill styles and records
\* are all of a kind the format defines.
PlainInput ==
  /\ plan = "repeat"
  /\ input.recordsMorph = <<>>
  /\ ~HasUnknownFill(input)
  /\ ~HasUnknownRecord(input)

\* The pen after the first n records, with every move taken as absolute.
RECURSIVE PenAfter(_, _)
PenAfter(records, n) ==
  IF n = 0 THEN <<0, 0>>
  ELSE LET record == records[n]
           before == PenAfter(records, n - 1)
       IN IF record.type = 0
          THEN (IF "Move" \in record.flags THEN <<record.moveX, record.moveY>> ELSE before)
          ELSE IF "IsStraight" \in record.flags
          THEN <<before[1] + record.deltaX, before[2] + record.deltaY>>
          ELSE <<before[1] + record.controlDeltaX + record.anchorDeltaX,
                 before[2] + record.controlDeltaY + record.anchorDeltaY>>

\* ------------------------------------------------------------ the buckets

\* Every record was processed and the segments are in their buckets; nothing
\* has been written out yet.
RecordsDone ==
  \/ decoder = "defineShape" /\ pc = "serialize" /\ i = 0
  \/ decoder = "toSimpleShape" /\ pc = "records" /\ i = Len(tag.records)

\* The style tables of the input: layer 0 is the tag's, layer n record n's.
InputLayers == {0} \cup {n \in 1..Len(input.records) : "HasNewStyles" \in input.records[n].flags}

\* A bucket is named by its layer, its kind and its 1 based index.
InputBuckets ==
  {StyleRef(l, kind, n) : l \in InputLayers, kind \in {"fill", "line"}, n \in 1..2}
  \cap {b \in [rec : InputLayers, kind : {"fill", "line"}, n : 1..2] :
          b.n <= Len(StyleTable(input, b.rec, b.kind))}

\* The segments of bucket b that carry logged edge e in the given direction.
\* defineShape: segments are ranges of the shared buffers and the direction is
\* the isReversed flag.  toSimpleShape: segments are values and the direction
\* is the order of their two ends; its only layer is the tag's.
SegmentsCarrying(b, e, reversed) ==
  IF decoder = "defineShape"
  THEN UNION {{<<p, k>> : k \in {k \in 1..Len(pathObjs[p].segments) :
                                   LET seg == segmentsPool[pathObjs[p].segments[k]]
                                   IN /\ seg.commandsStart <= e.command
                                      /\ e.command < seg.commandsEnd
                                      /\ seg.isReversed = reversed}} :
                p \in {p \in 1..Len(pathObjs) : pathObjs[p].style = b}}
  ELSE IF b.rec # 0 THEN {}
  ELSE LET set == IF b.kind = "fill" THEN layers[1].fills[b.n] ELSE layers[1].lines[b.n]
       IN {k \in 1..Len(set.segments) :
             LET seg == set.segments[k]
             IN IF reversed
                THEN seg.startX = e.endX /\ seg.startY = e.endY
                     /\ seg.endX = e.startX /\ seg.endY = e.startY
                ELSE seg.startX = e.startX /\ seg.startY = e.startY
                     /\ seg.endX = e.endX /\ seg.endY = e.endY}

\* The default path's segments that carry logged edge e (defineShape only has one).
DefaultCarrying(e) ==
  IF decoder # "defineShape" THEN {}
  ELSE UNION {{<<p, k>> : k \in {k \in 1..Len(pathObjs[p].segments) :
                                   LET seg == segmentsPool[pathObjs[p].segments[k]]
                                   IN /\ seg.commandsStart <= e.command
                                      /\ e.command < seg.commandsEnd}} :
                p \in {p \in 1..Len(pathObjs) : pathObjs[p].style.kind = "default"}}

Count(set, n) == Cardinality(set) = n

\* C1: for every edge record processed with active slots L (leftFill, fill0),
\* R (rightFill, fill1) and K (line), not all of them 0: fill bucket R holds
\* exactly one forward segment carrying the edge iff R # 0, fill bucket L exactly
\* one reversed segment iff L # 0, line bucket K exactly one forward segment iff
\* K # 0, and no other bucket (the default path included) holds the edge.
C1_OrderingTable ==
  (RecordsDone /\ PlainInput /\ ValidTag(input)) =>
    \A n \in 1..Len(edgeLog) :
      LET e == edgeLog[n]
          slots == ActiveSlots(input.records, e.record)
          layer == ActiveLayer(input.records, e.record)
      IN (slots # NoStyles) =>
           /\ \A b \in InputBuckets :
                /\ Count(SegmentsCarrying(b, e, FALSE),
                         IF /\ b.rec = layer
                            /\ \/ b.kind = "fill" /\ b.n = slots.fill1
                               \/ b.kind = "line" /\ b.n = slots.line
                         THEN 1 ELSE 0)
                /\ Count(SegmentsCarrying(b, e, TRUE),
                         IF b.rec = layer /\ b.kind = "fill" /\ b.n = slots.fill0 THEN 1 ELSE 0)
           /\ DefaultCarrying(e) = {}

\* C2 --------------------------------------------------------------------

\* The unordered endpoint pairs of the edges a command list draws, in order;
\* the pen starts at the origin.
RECURSIVE endpointPairsFrom(_, _, _)
endpointPairsFrom(commands, n, pen) ==
  IF n > Len(commands) THEN <<>>
  ELSE LET c == commands[n]
       IN IF c.type = "MoveTo" THEN endpointPairsFrom(commands, n + 1, <<c.x, c.y>>)
          ELSE <<{pen, <<c.x, c.y>>}>> \o endpointPairsFrom(commands, n + 1, <<c.x, c.y>>)

EndpointPairs(commands) == endpointPairsFrom(commands, 1, <<0, 0>>)

\* How often pair pr is drawn by the fill paths of a returned shape.
EmittedCount(paths, pr) ==
  Cardinality(UNION {{<<p, k>> : k \in {k \in 1..Len(EndpointPairs(paths[p].commands)) :
                                          EndpointPairs(paths[p].commands)[k] = pr}} :
                       p \in {p \in 1..Len(paths) : paths[p].fill # <<>>}})

\* The endpoint pair of input edge record n, with every move absolute.
InputPair(records, n) == {PenAfter(records, n - 1), PenAfter(records, n)}

\* How often pair pr occurs among the input edges, once per active fill slot.
InputCount(records, pr) ==
  Cardinality({<<n, slot>> \in (1..Len(records)) \X {"fill0", "fill1"} :
                 /\ records[n].type = 1
                 /\ InputPair(records, n) = pr
                 /\ ActiveSlots(records, n)[slot] # 0})

AllPairs(paths, records) ==
  {InputPair(records, n) : n \in {n \in 1..Len(records) : records[n].type = 1}}
  \cup UNION {{EndpointPairs(paths[p].commands)[k] : k \in 1..Len(EndpointPairs(paths[p].commands))} :
                p \in 1..Len(paths)}

\* C2: round-trip topology.  For every valid input that decodes, each unordered
\* endpoint pair is drawn by the fill paths as often as it occurs among the
\* input edges, counted once per active fill slot.
C2_RoundTripTopology ==
  \A r \in 1..Len(results) :
    (PlainInput /\ ValidTag(input) /\ results[r].ok) =>
      \A pr \in AllPairs(PathsOf(results[r]), input.records) :
        EmittedCount(PathsOf(results[r]), pr) = InputCount(input.records, pr)

\* C3: decoding is deterministic.  Two successive calls on the same tag object
\* both return or both throw, and what they return is equal.
C3_Deterministic ==
  PlainInput =>
    \A r \in 1..(Len(results) - 1) :
      /\ results[r].ok = results[r + 1].ok
      /\ results[r].error = results[r + 1].error
      /\ results[r].ok => results[r].value = results[r + 1].value

\* C4: for every valid input that decodes, the first command of every path
\* that has commands is a MoveTo.
C4_PathBeginsWithMoveTo ==
  \A r \in 1..Len(results) :
    (PlainInput /\ ValidTag(input) /\ results[r].ok) =>
      \A p \in 1..Len(PathsOf(results[r])) :
        LET commands == PathsOf(results[r])[p].commands
        IN Len(commands) > 0 => commands[1].type = "MoveTo"

\* C5: every path of a returned shape has a nonempty command list that draws
\* at least one edge, and exactly one of fill and line set.
C5_NoEmptyPath ==
  \A r \in 1..Len(results) :
    (PlainInput /\ ValidTag(input) /\ results[r].ok) =>
      \A p \in 1..Len(PathsOf(results[r])) :
        LET pth == PathsOf(results[r])[p]
        IN /\ Len(pth.commands) > 0
           /\ \E k \in 1..Len(pth.commands) : pth.commands[k].type # "MoveTo"
           /\ (pth.fill # <<>>) # (pth.line # <<>>)

\* C7: an edge record processed while all three slots are 0 is carried by
\* exactly one segment of the default path and by no fill or line bucket.
C7_DefaultPath ==
  (RecordsDone /\ PlainInput /\ ValidTag(input)) =>
    \A n \in 1..Len(edgeLog) :
      LET e == edgeLog[n]
      IN (ActiveSlots(input.records, e.record) = NoStyles) =>
           /\ Count(DefaultCarrying(e), 1)
           /\ \A b \in InputBuckets :
                SegmentsCarrying(b, e, FALSE) = {} /\ SegmentsCarrying(b, e, TRUE) = {}

\* C8: right after a style-change record that carries a move, the pen is at
\* the record's move coordinates.
C8_MoveIsAbsolute ==
  (PlainInput /\ pc = "records" /\ i > 0 /\ input.records[i].type = 0
   /\ "Move" \in input.records[i].flags)
  => (x = input.records[i].moveX /\ y = input.records[i].moveY)

\* The input draws one closed ring into one fill bucket: every edge is drawn
\* with the same single fill slot active, no two edges join the same two
\* points, and every endpoint belongs to exactly two edges.
RingInput(t) ==
  LET edges == {n \in 1..Len(t.records) : t.records[n].type = 1}
  IN /\ Cardinality(edges) >= 3
     /\ ValidTag(t)
     /\ \A n \in edges : ActiveSlots(t.records, n) = [fill0 |-> 0, fill1 |-> 1, line |-> 0]
     /\ \A n \in edges : ActiveLayer(t.records, n) = 0
     /\ \A n, k \in edges : n # k => InputPair(t.records, n) # InputPair(t.records, k)
     /\ \A n \in edges : \A pt \in InputPair(t.records, n) :
          Cardinality({k \in edges : pt \in InputPair(t.records, k)}) = 2
     /\ \A n \in edges : Cardinality(InputPair(t.records, n)) = 2

\* C9: a bucket whose segments form one closed ring, given in any record
\* order, comes out as one path that draws every edge once and has no MoveTo
\* after its first command.
C9_RingIsOneContour ==
  \A r \in 1..Len(results) :
    (PlainInput /\ RingInput(input) /\ results[r].ok) =>
      LET paths == PathsOf(results[r])
      IN /\ Len(paths) = 1
         /\ \A k \in 2..Len(paths[1].commands) : paths[1].commands[k].type # "MoveTo"
         /\ \A n \in {n \in 1..Len(input.records) : input.records[n].type = 1} :
              EmittedCount(paths, InputPair(input.records, n)) = 1

\* C10: when a style change selects an index past the end of the current
\* style table, no call returns a shape.
C10_OutOfRangeThrows ==
  \A r \in 1..Len(results) : (PlainInput /\ ~ValidTag(input)) => ~results[r].ok

\* C6 --------------------------------------------------------------------

\* The fill and line styles of the paths written so far, in order: for
\* defineShape those of the running call, for toSimpleShape those of result r.
WrittenStyles(r) ==
  IF decoder = "defineShape"
  THEN SelectSeq(serialized, LAMBDA ref : ref.kind # "default")
  ELSE IF r = 0 \/ ~results[r].ok THEN <<>>
  ELSE [p \in 1..Len(results[r].value.paths) |->
          LET pth == results[r].value.paths[p]
          IN StyleRef(pth.layer, IF pth.fill # <<>> THEN "fill" ELSE "line", pth.index)]

\* Style u is written before style v: an earlier layer, or the same layer and
\* a fill before a line, or the same kind and a smaller index.
WrittenBefore(u, v) ==
  \/ u.rec < v.rec
  \/ u.rec = v.rec /\ u.kind = "fill" /\ v.kind = "line"
  \/ u.rec = v.rec /\ u.kind = v.kind /\ u.n < v.n

C11_UnknownFillKindThrows ==
  \A r \in 1..Len(results) :
    (plan = "repeat" /\ HasUnknownFill(input)) => ~results[r].ok

\* C12 -------------------------------------------------------------------

\* C12: when a record of the tag has a type that is neither style change nor
\* edge, no call returns a shape, and the record is never passed over nor
\* drawn as an edge.
C12_UnknownRecordThrows ==
  /\ \A r \in 1..Len(results) :
       (plan = "repeat" /\ HasUnknownRecord(input)) => ~results[r].ok
  /\ \A n \in 1..Len(edgeLog) : tag.records[edgeLog[n].record].type = 1
  /\ (pc = "records" /\ i > 0) => tag.records[i].type \in {0, 1}

\* C13 -------------------------------------------------------------------

\* The end frame of a morph ShapeData: its commands with the coordinates of
\* the end frame.
MorphEndShape(sd) == [sd EXCEPT !.coordinates = sd.morphCoordinates]

\* The unordered endpoint pairs a ShapeData draws, and how often it draws
\* pair pr, over all of its paths.
DrawnPairs(sd) ==
  UNION {{EndpointPairs(ShapeDataPaths(sd)[p].commands)[k] :
            k \in 1..Len(EndpointPairs(ShapeDataPaths(sd)[p].commands))} :
           p \in 1..Len(ShapeDataPaths(sd))}

DrawnCount(sd, pr) ==
  Cardinality(UNION {{<<p, k>> : k \in {k \in 1..Len(EndpointPairs(ShapeDataPaths(sd)[p].commands)) :
                                          EndpointPairs(ShapeDataPaths(sd)[p].commands)[k] = pr}} :
                       p \in 1..Len(ShapeDataPaths(sd))})

SamePairs(a, b) ==
  \A pr \in DrawnPairs(a) \cup DrawnPairs(b) : DrawnCount(a, pr) = DrawnCount(b, pr)

\* The two frames of a morph tag have the same records but for their
\* coordinates: a style change for each style change, with the same flags,
\* and an edge for each edge.
MatchedFrames(t) ==
  /\ t.recordsMorph # <<>>
  /\ Len(t.recordsMorph[1]) = Len(t.records)
  /\ \A n \in 1..Len(t.records) :
       /\ t.recordsMorph[1][n].type = t.records[n].type
       /\ t.records[n].type = 0 => t.recordsMorph[1][n].flags = t.records[n].flags

\* The caller has decoded a morph tag, its start records alone and its end
\* records alone, and the three calls returned.
FramesDecoded ==
  /\ plan = "frames" /\ Len(results) = 3
  /\ MatchedFrames(input) /\ ValidTag(input)
  /\ \A r \in 1..3 : results[r].ok

\* C13: the start frame of the morph decoding draws the endpoint pairs the
\* decoding of the start records alone draws, as often; the end frame of the
\* morph decoding draws those the decoding of the end records alone draws.
C13_MorphPairing ==
  FramesDecoded =>
    /\ SamePairs(results[1].value.shape, results[2].value.shape)
    /\ SamePairs(MorphEndShape(results[1].value.shape), results[3].value.shape)

\* C14 -------------------------------------------------------------------

\* The largest h with 2 * h <= n.
FloorHalf(n) == (n - (n % 2)) \div 2

\* The coordinates the edge of a record has in one frame, from pen (px, py):
\* its end for a line; control point and end for a curve, a straight record
\* being given the control point pen + floor(delta / 2).
LineCoordinates(rec, px, py) == <<px + rec.deltaX, py + rec.deltaY>>

CurveCoordinates(rec, px, py) ==
  IF "IsStraight" \in rec.flags
  THEN <<px + FloorHalf(rec.deltaX), py + FloorHalf(rec.deltaY),
         px + rec.deltaX, py + rec.deltaY>>
  ELSE <<px + rec.controlDeltaX, py + rec.controlDeltaY,
         px + rec.controlDeltaX + rec.anchorDeltaX, py + rec.controlDeltaY + rec.anchorDeltaY>>

\* The record of the end frame that logged edge e was paired with.
PairedRecord(e) ==
  IF e.paired = 0 THEN tag.records[e.record] ELSE tag.recordsMorph[1][e.paired]

MorphDecoding == decoder = "defineShape" /\ tag.recordsMorph # <<>>

\* C14: every edge command of a morph decoding is one command for both
\* frames: a LineTo when both paired records are straight, else a CurveTo
\* whose coordinates in each frame are those of that frame's record, a
\* straight record having the control point pen + floor(delta / 2) and the
\* end pen + delta.
C14_SameKindInBothFrames ==
  MorphDecoding =>
    \A n \in 1..Len(edgeLog) :
      LET e == edgeLog[n]
          rec == tag.records[e.record]
          mrec == PairedRecord(e)
          command == sharedCommands[e.command + 1]
      IN IF "IsStraight" \in rec.flags /\ "IsStraight" \in mrec.flags
         THEN /\ command = "LineTo"
              /\ SubSeq(sharedData, e.data + 1, e.data + 2)
                   = LineCoordinates(rec, e.startX, e.startY)
              /\ SubSeq(sharedMorphData, e.morphData + 1, e.morphData + 2)
                   = LineCoordinates(mrec, e.morphStartX, e.morphStartY)
         ELSE /\ command = "CurveTo"
              /\ SubSeq(sharedData, e.data + 1, e.data + 4)
                   = CurveCoordinates(rec, e.startX, e.startY)
              /\ SubSeq(sharedMorphData, e.morphData + 1, e.morphData + 4)
                   = CurveCoordinates(mrec, e.morphStartX, e.morphStartY)

\* A morph decoding has processed its records, among them a curved record
\* paired with a straight record of odd negative delta and a straight record
\* paired with a curved one, each written as a CurveTo.
C14_Witness ==
  /\ MorphDecoding /\ pc = "serialize"
  /\ \E n \in 1..Len(edgeLog) :
       /\ edgeLog[n].paired # 0
       /\ "IsStraight" \notin tag.records[edgeLog[n].record].flags
       /\ "IsStraight" \in PairedRecord(edgeLog[n]).flags
       /\ PairedRecord(edgeLog[n]).deltaX = -3
       /\ sharedCommands[edgeLog[n].command + 1] = "CurveTo"
  /\ \E n \in 1..Len(edgeLog) :
       /\ edgeLog[n].paired # 0
       /\ "IsStraight" \in tag.records[edgeLog[n].record].flags
       /\ "IsStraight" \notin PairedRecord(edgeLog[n]).flags
       /\ sharedCommands[edgeLog[n].command + 1] = "CurveTo"

\* C15 -------------------------------------------------------------------

\* The coordinates of a morph command in frame f (1: start, 2: end), in the
\* order of the arguments of its context call and in units of 1 / RatioDen.
FrameCoordinates(command, f) ==
  CASE command.type = "CurveTo" ->
         <<RatioDen * command.controlX[f], RatioDen * command.controlY[f],
           RatioDen * command.endX[f], RatioDen * command.endY[f]>>
    [] command.type = "LineTo" -> <<RatioDen * command.endX[f], RatioDen * command.endY[f]>>
    [] OTHER -> <<RatioDen * command.x[f], RatioDen * command.y[f]>>

\* C15: at ratio 0 every command of a morph path is drawn with its start
\* coordinates, at ratio 1 with its end coordinates.
C15_LerpReachesBothFrames ==
  \A k \in 1..commandIndex :
    /\ ratio = 0 => context[k + 1].args = FrameCoordinates(morphPath.commands[k], 1)
    /\ ratio = RatioDen => context[k + 1].args = FrameCoordinates(morphPath.commands[k], 2)

\* C16 -------------------------------------------------------------------

\* The style tables the running call has normalized: those of the tag and
\* those of the style changes it has processed.
NormalizedLayers ==
  {0} \cup {n \in 1..(IF pc = "records" THEN i ELSE Len(tag.records)) :
              tag.records[n].type = 0 /\ "HasNewStyles" \in tag.records[n].flags}

\* The normalized styles that are bitmap fills, or lines filled with one.
NormalizedBitmapStyles ==
  UNION {{StyleTable(tag, l, kind)[n] : n \in {n \in 1..Len(StyleTable(tag, l, kind)) :
                                               IsBitmap(StyleTable(tag, l, kind)[n].type)}} :
           l \in NormalizedLayers, kind \in {"fill", "line"}}

DependenciesConsistent ==
  (decoder = "defineShape" /\ pc \in {"records", "serialize"}) =>
    /\ \A a, b \in 1..Len(dependencies) : a # b => dependencies[a] # dependencies[b]
    /\ \A style \in NormalizedBitmapStyles :
         /\ style.bitmapIndex >= 0 /\ style.bitmapIndex < Len(dependencies)
         /\ dependencies[style.bitmapIndex + 1] = style.bitmapId

\* While a call runs the dependency list only grows at its end.
DependenciesAppendOnly ==
  (pc \in {"records", "serialize"}) =>
    /\ Len(dependencies') >= Len(dependencies)
    /\ SubSeq(dependencies', 1, Len(dependencies)) = dependencies

\* C16: the dependency list of a call holds no id twice, the index stored in
\* every normalized bitmap style is the position of its bitmapId in the list,
\* and the list only grows by appending, so that no index changes.
C16_BitmapDependencies ==
  [] DependenciesConsistent /\ [][DependenciesAppendOnly]_vars

\* A call has normalized bitmap fills of the tag's tables and of a style
\* change: two of them share an id and an index, the list holds three ids,
\* and the last was appended by the style change.
C16_Witness ==
  /\ decoder = "defineShape" /\ pc = "serialize"
  /\ dependencies = <<7, 8, 9>>
  /\ tag.fillStyles[1].bitmapIndex = 0 /\ tag.fillStyles[3].bitmapIndex = 0
  /\ tag.fillStyles[2].bitmapIndex = 1
  /\ \E n \in NormalizedLayers :
       n > 0 /\ tag.records[n].fillStyles[1].bitmapIndex = 2
             /\ tag.records[n].fillStyles[2].bitmapIndex = 0

\* C17 -------------------------------------------------------------------

\* max(miterLimitFactor, 1.5) * 2; a style without a factor has the default.
ClampedMiterLimit(style) ==
  IF style.miterLimitFactor # <<>> /\ 2 * style.miterLimitFactor[1] > 3
  THEN 2 * style.miterLimitFactor[1] ELSE 3

\* C17: every line style the running call has normalized has the miter
\* limit max(miterLimitFactor, 1.5) * 2.
C17_MiterLimitClamped ==
  (decoder = "defineShape" /\ pc \in {"records", "serialize"}) =>
    \A l \in NormalizedLayers :
      \A n \in 1..Len(StyleTable(tag, l, "line")) :
        StyleTable(tag, l, "line")[n].miterLimit = <<ClampedMiterLimit(StyleTable(tag, l, "line")[n])>>

\* C18 -------------------------------------------------------------------

\* C18: a tag decoded after another tag, with which it shares no object,
\* gives what it gave when it was decoded first.
C18_NoStateBetweenCalls ==
  (plan = "interleave" /\ Len(results) = 3) => results[3] = results[1]

\* A tag that decodes into a shape was decoded, then another tag that
\* decodes into a different shape, then the first tag again, in segments of
\* the pool that the earlier calls had used.
C18_Witness ==
  /\ plan = "interleave" /\ Len(results) = 3
  /\ results[1].ok /\ results[2].ok /\ results[3].ok
  /\ results[2] # results[1]
  /\ Len(results[1].value.shape.commands) > 3
  /\ Len(segmentsPool) > segmentsCounter
  /\ segmentsCounter >= 1

\* C19 -------------------------------------------------------------------

\* The index a slot of the converter selects (0: the slot is undefined).
SlotOf(ref) == IF ref = <<>> THEN 0 ELSE ref[2]

\* The three active slots of the running call, whichever the decoder.
CurrentSlots ==
  IF decoder = "defineShape" THEN styles
  ELSE [fill0 |-> SlotOf(leftFill), fill1 |-> SlotOf(rightFill), line |-> SlotOf(lineFill)]

\* The buckets of bucket b that carry logged edge e, in either direction.
Carrying(b, e) == SegmentsCarrying(b, e, FALSE) \cup SegmentsCarrying(b, e, TRUE)

\* C19: right after a style change that carries new style tables, every slot
\* the record does not specify is 0 and every other slot has the record's
\* value; and no edge processed after it is in a bucket of an earlier layer.
C19_NewStylesCloseLayer ==
  (PlainInput /\ ValidTag(input)) =>
    /\ (/\ pc = "records" /\ i > 0
        /\ tag.records[i].type = 0 /\ "HasNewStyles" \in tag.records[i].flags)
       => CurrentSlots = updateSlots(tag.records[i], NoStyles)
    /\ RecordsDone =>
         \A n \in 1..Len(edgeLog) :
           \A b \in InputBuckets :
             b.rec < ActiveLayer(input.records, edgeLog[n].record) => Carrying(b, edgeLog[n]) = {}

\* C20 -------------------------------------------------------------------

NoNewStyles(t) == \A n \in 1..Len(t.records) : "HasNewStyles" \notin t.records[n].flags

\* C20: with no new style tables in the records, the three slots after each
\* record are those the style changes so far select, a record leaving the
\* slots it does not specify as they were; and every edge is in the bucket
\* of each slot that was active when it was processed.
C20_SlotsFollowRecords ==
  (PlainInput /\ ValidTag(input) /\ NoNewStyles(input)) =>
    /\ pc = "records" => CurrentSlots = ActiveSlots(input.records, i)
    /\ RecordsDone =>
         \A n \in 1..Len(edgeLog) :
           LET slots == ActiveSlots(input.records, edgeLog[n].record)
           IN /\ slots.fill0 # 0 => Carrying(StyleRef(0, "fill", slots.fill0), edgeLog[n]) # {}
              /\ slots.fill1 # 0 => Carrying(StyleRef(0, "fill", slots.fill1), edgeLog[n]) # {}
              /\ slots.line # 0 => Carrying(StyleRef(0, "line", slots.line), edgeLog[n]) # {}

\* ------------------------------------------------------------------ C21

\* The two endpoints of pool entry s as points: the coordinates at the start
\* and at the end of its data.
EndpointsOf(s) ==
  LET seg == segmentsPool[s]
  IN {<<At(sharedData, seg.dataStart \div 4), At(sharedData, (seg.dataStart \div 4) + 1)>>,
      <<At(sharedData, (seg.dataEnd \div 4) - 2), At(sharedData, (seg.dataEnd \div 4) - 1)>>}

\* The segments of the paths that serialize has linked and written out.
LinkedSegments ==
  IF decoder = "defineShape" /\ pc = "serialize"
  THEN UNION {{pathObjs[allPaths[1][k]].segments[n] :
                 n \in 1..Len(pathObjs[allPaths[1][k]].segments)} : k \in 1..i}
  ELSE {}

Neighbours(s) == {segmentsPool[s].prev, segmentsPool[s].next} \ {0}

\* C21: the reconstructor treats two segment endpoints as connected only if
\* they are the same point, both twip coordinates being equal: two segments
\* it has linked have an endpoint in common.
C21_ConnectedIsSamePoint ==
  \A s \in LinkedSegments : \A t \in Neighbours(s) : EndpointsOf(s) \cap EndpointsOf(t) # {}

\* ------------------------------------------------------------------ C22

\* The decoder is about to handle a style change of the start frame whose
\* paired record of the end frame exists and is not a style change.
UnmatchedStyleChange ==
  /\ MorphDecoding /\ pc = "records" /\ i < Len(tag.records)
  /\ tag.records[i + 1].type = 0
  /\ MorphRecordAt(tag, j) # <<>>
  /\ MorphRecordAt(tag, j)[1].type # 0

\* The end pen is what it was before the record.
EndPenKept == morphX' = morphX /\ morphY' = morphY

\* The cursor of the end frame is back where it was: the record it pointed
\* at is read again for the next record of the start frame.
CursorBackedUp == j' = j

\* C22: when a style change of the start frame is paired with a record of
\* the end frame that is not a style change, the end pen is left unchanged
\* and the cursor of the end frame is moved back by one, so that the same
\* end record is paired with the next start record.
C22_UnmatchedStyleChange ==
  [][(UnmatchedStyleChange /\ i' = i + 1) => (EndPenKept /\ CursorBackedUp)]_vars

\* ------------------------------------------------------------------ C23

\* The records of the end frame have run out: the decoder is about to handle
\* a record of the start frame, and the end frame has no record left for it
\* (for an edge, none but moves, which are skipped).
EndStreamOut ==
  /\ MorphDecoding /\ pc = "records" /\ i < Len(tag.records)
  /\ IF tag.records[i + 1].type = 0
     THEN MorphRecordAt(tag, j) = <<>>
     ELSE skipMoves(tag.recordsMorph[1], j) >= Len(tag.recordsMorph[1])

\* The step ends the call with an error.
CallThrows == Len(results') > Len(results) /\ ~results'[Len(results')].ok

\* The edge of the start frame is its own pair: the end pen moves by what
\* the start pen moves by.
SelfPaired == morphX' - morphX = x' - x /\ morphY' - morphY = y' - y

\* C23: when the records of the end frame of a morph run out before those
\* of the start frame, decoding goes on without an error, and each edge of
\* the start frame that has no end record left is paired with itself.
C23_EndStreamRunsOut ==
  [][EndStreamOut => (~CallThrows /\ (tag.records[i + 1].type # 0 => SelfPaired))]_vars

\* ------------------------------------------------------------------ C24

\* defineShape has returned a shape; `serialized` lists its paths.
ShapeReturned == decoder = "defineShape" /\ pc = "idle" /\ call >= 1 /\ results[call].ok

DefaultPaths == {k \in 1..Len(serialized) : serialized[k].kind = "default"}

\* C24: a default path of a decoded shape is the last path of the shape,
\* after every fill and line path of every layer, and the shape has at most
\* one default path.
C24_DefaultPathLast ==
  ShapeReturned => DefaultPaths \subseteq {Len(serialized)}

\* ------------------------------------------------------------------ C25

\* The segments of the path that the next step of the serialization writes.
NextSegments ==
  IF decoder = "defineShape" /\ pc = "serialize" /\ i < Len(allPaths[1])
  THEN {pathObjs[allPaths[1][i + 1]].segments[n] :
          n \in 1..Len(pathObjs[allPaths[1][i + 1]].segments)}
  ELSE {}

\* The path has been written and each of its segments was written in the
\* direction it had: isReversed, which the emitter set, is what it was.
DirectionKept(s) == segmentsPool'[s].isReversed = segmentsPool[s].isReversed

\* C25: every segment is written out in the direction the emitter assigned
\* to it, a forward segment from its first to its last point and a reversed
\* one from its last to its first: reconstructing the contours does not
\* change the direction of a segment.
C25_WindingKept ==
  [][i' = i + 1 => \A s \in NextSegments : DirectionKept(s)]_vars

\* ------------------------------------------------------------------ C26

\* The segments of the paths written so far.
WrittenSegments == LinkedSegments

\* C26: SegmentedPath.serialize terminates for every bucket of segments,
\* whatever its connectivity, and every segment is marked visited (its flag
\* is cleared) when it returns.
C26_SerializeTerminates ==
  /\ pc # "diverged"
  /\ \A s \in WrittenSegments : ~segmentsPool[s].flag

\* A bucket has been written in which three or more segments meet in one
\* point, and every segment of it is marked visited.
C26_Witness ==
  /\ decoder = "defineShape" /\ pc = "serialize" /\ i >= 1
  /\ \E pt \in KnotPoints :
       Cardinality({s \in WrittenSegments : pt \in EndpointsOf(s)}) >= 3
  /\ \A s \in WrittenSegments : ~segmentsPool[s].flag

\* ------------------------------------------------------------------ C27

\* The segments of the bucket written last: their links are those the
\* linking phase of its serialization has left.
LastLinked ==
  IF decoder = "defineShape" /\ pc = "serialize" /\ i >= 1
  THEN {pathObjs[allPaths[1][i]].segments[n] :
          n \in 1..Len(pathObjs[allPaths[1][i]].segments)}
  ELSE {}

\* Every link is held from both sides; a link that a later one had
\* overwritten would be held from one side only.
LinksSymmetric ==
  \A s \in LastLinked : \A q \in Neighbours(s) : q \in LastLinked /\ s \in Neighbours(q)

LinkedShareEndpoint ==
  \A s \in LastLinked : \A q \in Neighbours(s) : EndpointsOf(s) \cap EndpointsOf(q) # {}

\* C27: after checkSegment has been applied to every segment of a bucket,
\* each segment has at most two neighbours (prev and next), the links are
\* symmetric, none set earlier has been overwritten, and any two linked
\* segments share an endpoint.
C27_LinksConsistent == LinksSymmetric /\ LinkedShareEndpoint

\* ------------------------------------------------------------------ C28

\* The edges a write-out draws: for each LineTo and CurveTo the point the
\* pen is at, the control point of a curve, and the point it goes to, in
\* the coordinates of the start frame (morph = FALSE) or of the end frame.
RECURSIVE edgesFrom(_, _, _, _, _)
edgesFrom(commands, coordinates, n, ci, pen) ==
  IF n > Len(commands) THEN <<>>
  ELSE IF commands[n] = "MoveTo"
  THEN edgesFrom(commands, coordinates, n + 1, ci + 2, <<coordinates[ci], coordinates[ci + 1]>>)
  ELSE IF commands[n] = "LineTo"
  THEN <<[type |-> "LineTo", from |-> pen, control |-> <<>>,
          to |-> <<coordinates[ci], coordinates[ci + 1]>>]>>
       \o edgesFrom(commands, coordinates, n + 1, ci + 2, <<coordinates[ci], coordinates[ci + 1]>>)
  ELSE <<[type |-> "CurveTo", from |-> pen, control |-> <<coordinates[ci], coordinates[ci + 1]>>,
          to |-> <<coordinates[ci + 2], coordinates[ci + 3]>>]>>
       \o edgesFrom(commands, coordinates, n + 1, ci + 4,
                    <<coordinates[ci + 2], coordinates[ci + 3]>>)

EdgesOf(sd, morph) ==
  edgesFrom(sd.commands, IF morph THEN sd.morphCoordinates ELSE sd.coordinates, 1, 1, <<>>)

\* The mirror image: the edges in reverse order, each from its end to its
\* start, a curve with the same control point.
Mirror(edges) ==
  [k \in 1..Len(edges) |->
     [edges[Len(edges) + 1 - k] EXCEPT !.from = edges[Len(edges) + 1 - k].to,
                                      !.to = edges[Len(edges) + 1 - k].from]]

\* A last position that no segment starts or ends at.
Nowhere == [x |-> -1000, y |-> -1000]

\* Pool entry s written on its own into an empty ShapeData, forward or
\* reversed.
WriteOut(s, reversed) ==
  serializeSegment([segmentsPool[s] EXCEPT !.isReversed = reversed], sharedCommands, sharedData,
                   sharedMorphData, EmptyShapeData, Nowhere)

MirrorImage(s) ==
  LET f == WriteOut(s, FALSE)
      r == WriteOut(s, TRUE)
      seg == segmentsPool[s]
      first == <<At(sharedData, seg.dataStart \div 4), At(sharedData, (seg.dataStart \div 4) + 1)>>
      last == <<At(sharedData, (seg.dataEnd \div 4) - 2), At(sharedData, (seg.dataEnd \div 4) - 1)>>
  IN /\ EdgesOf(r.shape, FALSE) = Mirror(EdgesOf(f.shape, FALSE))
     /\ seg.isMorph => EdgesOf(r.shape, TRUE) = Mirror(EdgesOf(f.shape, TRUE))
     /\ r.shape.commands[1] = "MoveTo"
     /\ <<r.shape.coordinates[1], r.shape.coordinates[2]>> = last
     /\ <<r.last.x, r.last.y>> = first

SegmentsInUse ==
  IF decoder = "defineShape" /\ pc = "serialize" THEN 1..segmentsCounter ELSE {}

\* C28: writing a segment out reversed gives the mirror image of writing it
\* out forward: the edges in reverse order, each from its original end to
\* its original start, every curve with its control point, from the last
\* point of the segment to its first; and flipDirection applied twice
\* restores startPoint, endPoint and the flag.
C28_ReversedIsMirror ==
  \A s \in SegmentsInUse :
    /\ MirrorImage(s)
    /\ flipDirection(flipDirection(segmentsPool, s), s) = segmentsPool

\* A segment of a line and a curve has been written both ways.
C28_Witness ==
  \E s \in SegmentsInUse :
    /\ Len(EdgesOf(WriteOut(s, TRUE).shape, FALSE)) >= 2
    /\ \E k \in 1..2 : EdgesOf(WriteOut(s, TRUE).shape, FALSE)[k].type = "CurveTo"
    /\ MirrorImage(s)
    /\ segmentsPool[s].startPoint # segmentsPool[s].endPoint

\* ------------------------------------------------------------------ C29

\* C29: when CanvasRenderer.render returns or throws, every context.save()
\* it made has been matched by a context.restore(): the stack of saved
\* drawing states is as deep as it was before the call.
C29_SaveRestoreBalanced ==
  \A k \in 1..Len(outcomes) :
    (stagePc = "idle" \/ k < Len(outcomes)) => outcomes[k].after = outcomes[k].before

\* ------------------------------------------------------------------ C30

\* The calls of the decoders that one CanvasRenderer has made for one
\* definition, as indices into the history.
DecodesOf(r, d) ==
  {k \in 1..Len(decodes) : decodes[k].renderer = r /\ decodes[k].definition = d}

Renderers == {decodes[k].renderer : k \in 1..Len(decodes)}

DefinitionIds == 1..Len(Definitions)

\* Every decoding that is drawn is the one the first call for its
\* definition returned.
UsesFirstDecoding ==
  \A u \in 1..Len(used) :
    /\ used[u].decoding \in DecodesOf(used[u].renderer, used[u].definition)
    /\ \A k \in DecodesOf(used[u].renderer, used[u].definition) :
         decodes[k].ok => k = used[u].decoding

\* The caches hold decodings that were returned: a call that threw has left
\* no entry.
CachesHoldReturned ==
  /\ \A d \in DOMAIN shapeCache : decodes[shapeCache[d]].ok
  /\ \A d \in DOMAIN morphShapeCache : decodes[morphShapeCache[d]].ok
  /\ \A d \in DefinitionIds :
       (d \in DOMAIN shapeCache \/ d \in DOMAIN morphShapeCache)
         => \E k \in DecodesOf(renderer, d) : decodes[k].ok

\* C30: over the render calls on one CanvasRenderer, decodeSwfShape is called
\* at most once for each DefineShape object and decodeSwfMorphShape at most
\* once for each DefineMorphShape object, every later draw of the object
\* uses the result of that call, and a call that throws leaves no entry in
\* the cache.
C30_DecodedOnce ==
  /\ \A r \in Renderers : \A d \in DefinitionIds : Cardinality(DecodesOf(r, d)) <= 1
  /\ UsesFirstDecoding
  /\ CachesHoldReturned

\* C30, amended: on one CanvasRenderer at most one call of the decoder for
\* an object returns, and no call for the object follows it (the decoder
\* is called again only after it threw); every draw of the object uses the
\* result of the call that returned, and a call that throws leaves no entry
\* in the cache.
C30_DecodedOnceUnlessThrown ==
  /\ \A r \in Renderers : \A d \in DefinitionIds :
       \A k \in DecodesOf(r, d) : decodes[k].ok => \A n \in DecodesOf(r, d) : n <= k
  /\ UsesFirstDecoding
  /\ CachesHoldReturned

\* One CanvasRenderer has rendered twice: it has drawn one decoding in both
\* calls, and it has called the decoder twice for a definition it throws on.
C30_Witness ==
  /\ wrapper = "kept" /\ stagePc = "idle" /\ Len(outcomes) = 2
  /\ \E d \in DefinitionIds : Cardinality(DecodesOf(1, d)) = 2
  /\ \E d \in DefinitionIds :
       /\ Cardinality(DecodesOf(1, d)) = 1
       /\ Cardinality({u \in 1..Len(used) : used[u].definition = d}) >= 2

====
